---- MODULE Spec2Model ----
(***************************************************************************)
(* A model of the conversation-analysis and scoring engine of difficultai: *)
(* the difficulty controller of DifficultAI (src/difficult_ai.py) and the  *)
(* EvaluatorAgent scorecard (src/agents/evaluator.py).                     *)
(*                                                                         *)
(* Scores are Python floats in the source.  They are modelled as exact     *)
(* rationals [num, den] in lowest terms; difficulty values, which the      *)
(* source takes either as integers 1..5 or as floats in [0, 1], are held   *)
(* in tenths (0.6 is 6, 2 is 20).                                          *)
(***************************************************************************)
EXTENDS Integers, Sequences, FiniteSets, TLC

\* ------------------------------------------------------------------ bounds

\* Cap of vague_response_count and of deflection_count (unbounded in the code).
MaxCount == 4

\* Cap of len(commitments_made) (unbounded in the code).
MaxCommitments == 3

\* Largest count (vague, deflection, commitments) of a metrics record.
MaxMetricCount == 3

\* Largest total_exchanges of a metrics record.
MaxExchanges == 4

\* Cap of the evaluate_conversation calls of one run (unbounded in the code).
MaxEvaluations == 2

\* Cap of the chat calls between two resets (unbounded in the code); the direct
\* calls of the text analyses are made before the last of them.
MaxChats == 3

VARIABLES
    difficulty_level,       \* DifficultAI.difficulty_level
    vague_response_count,   \* DifficultAI.vague_response_count
    deflection_count,       \* DifficultAI.deflection_count
    commitments_made,       \* DifficultAI.commitments_made
    system_prompt,          \* DifficultAI.system_prompt: the state it was built from
    last_call,              \* history: the last operation and its intermediate levels
    conversation_history,   \* DifficultAI.conversation_history
    interrupted,            \* DifficultAI.interrupted
    last_chat,              \* history: the last chat, analysis or extraction call
    metrics,                \* the metrics record handed to evaluate_conversation
    scenario,               \* the scenario handed to evaluate_conversation
    evaluations,            \* EvaluatorAgent.evaluations, per evaluator instance
    last_evaluation,        \* history: the last evaluate_conversation call
    raised,                 \* the exception the last evaluate_conversation call raised
    session,                \* DifficultAIAgent.session: the SessionState
    entrypoint,             \* DifficultAIAgent.entrypoint: its position and its end
    tracer,                 \* OpikTracer.enabled, the _current_trace of the context,
                            \* and the traces the Opik client has made
    span,                   \* the span of the trace_*_span block that is open or was last
    last_validation,        \* history: what the scenario validator returned
    adversary               \* the AdversaryAgent: scenario, level and counters

agent_vars == <<difficulty_level, vague_response_count, deflection_count,
                commitments_made, system_prompt, last_call>>

eval_vars == <<metrics, scenario, evaluations, last_evaluation, raised>>

chat_vars == <<conversation_history, interrupted, last_chat>>

livekit_vars == <<session, entrypoint, tracer, span, last_validation>>

vars == <<agent_vars, chat_vars, eval_vars, livekit_vars, adversary>>

\* ------------------------------------------------- DifficultAI (difficult_ai.py)

BOOL == {TRUE, FALSE}

\* The analysis dict of _analyze_response_quality, as _update_difficulty reads it.
Analyses == [is_vague : BOOL, is_deflecting : BOOL, is_concrete : BOOL]

NoAnalysis == [is_vague |-> FALSE, is_deflecting |-> FALSE, is_concrete |-> FALSE]

\* The texts a recorded commitment may be.
CommitmentTexts == {"I will deliver the report", "by Friday"}

\* The values _build_system_prompt interpolates into the prompt text.
BuildSystemPrompt(level, vague, deflections, commitments) ==
    [difficulty_level |-> level,
     vague_responses  |-> vague,
     deflections      |-> deflections,
     commitments      |-> Len(commitments)]

\* The vague step without its test difficulty_level < 5.
VagueStepUncapped(st, analysis) ==
    IF analysis.is_vague
    THEN LET vc == st.vague + 1
         IN  [st EXCEPT !.vague = vc,
                        !.level = IF vc >= 2 THEN st.level + 1 ELSE st.level]
    ELSE st

\* The vague step raising the level from the first vague response on.
VagueStepAtFirst(st, analysis) ==
    IF analysis.is_vague
    THEN LET vc == st.vague + 1
         IN  [st EXCEPT !.vague = vc,
                        !.level = IF vc >= 1 /\ st.level < 5
                                  THEN st.level + 1 ELSE st.level]
    ELSE st

\* Lines 137-140: the vague step on st = [level, vague, deflection].
VagueStep(st, analysis) ==
    IF analysis.is_vague
    THEN LET vc == st.vague + 1
         IN  [st EXCEPT !.vague = vc,
                        !.level = IF vc >= 2 /\ st.level < 5
                                  THEN st.level + 1 ELSE st.level]
    ELSE st

\* The deflection step written as the elif of the vague step.
DeflectStepElif(st, analysis) ==
    IF analysis.is_deflecting /\ ~analysis.is_vague
    THEN LET dc == st.deflection + 1
         IN  [st EXCEPT !.deflection = dc,
                        !.level = IF dc >= 2 /\ st.level < 5
                                  THEN st.level + 1 ELSE st.level]
    ELSE st

\* Lines 142-145: the deflection step.
DeflectStep(st, analysis) ==
    IF analysis.is_deflecting
    THEN LET dc == st.deflection + 1
         IN  [st EXCEPT !.deflection = dc,
                        !.level = IF dc >= 2 /\ st.level < 5
                                  THEN st.level + 1 ELSE st.level]
    ELSE st

\* max(1, x) of line 151.
Max(a, b) == IF a >= b THEN a ELSE b

\* The reward step without its test on the commitments recorded.
ConcreteStepAnyCommitments(st, analysis, commitments) ==
    IF analysis.is_concrete /\ ~analysis.is_vague /\ st.level > 1
    THEN [st EXCEPT !.level = Max(1, st.level - 1)]
    ELSE st

\* Lines 148-151: the reward step.
ConcreteStep(st, analysis, commitments) ==
    IF analysis.is_concrete /\ ~analysis.is_vague /\ st.level > 1
    THEN IF Len(commitments) >= 2
         THEN [st EXCEPT !.level = Max(1, st.level - 1)]
         ELSE st
    ELSE st

AgentState ==
    [level      |-> difficulty_level,
     vague      |-> vague_response_count,
     deflection |-> deflection_count]

InitAgent ==
    /\ difficulty_level = 1
    /\ vague_response_count = 0
    /\ deflection_count = 0
    /\ commitments_made = <<>>
    /\ system_prompt = BuildSystemPrompt(1, 0, 0, <<>>)
    /\ last_call = [op |-> "init", analysis |-> NoAnalysis,
                    before |-> [level |-> 1, vague |-> 0, deflection |-> 0],
                    after_vague |-> [level |-> 1, vague |-> 0, deflection |-> 0],
                    after_deflect |-> [level |-> 1, vague |-> 0, deflection |-> 0],
                    commitments |-> 0]

\* DifficultAI._update_difficulty(analysis), the system prompt rebuilt at its end.
UpdateDifficulty(analysis) ==
    /\ analysis.is_vague => vague_response_count < MaxCount
    /\ analysis.is_deflecting => deflection_count < MaxCount
    /\ LET s1 == VagueStep(AgentState, analysis)
           s2 == DeflectStep(s1, analysis)
           s3 == ConcreteStep(s2, analysis, commitments_made)
       IN  /\ difficulty_level' = s3.level
           /\ vague_response_count' = s3.vague
           /\ deflection_count' = s3.deflection
           /\ system_prompt' = BuildSystemPrompt(s3.level, s3.vague, s3.deflection,
                                                 commitments_made)
           /\ last_call' = [op |-> "update", analysis |-> analysis,
                            before |-> AgentState, after_vague |-> s1,
                            after_deflect |-> s2,
                            commitments |-> Len(commitments_made)]
    /\ UNCHANGED commitments_made

\* A commitment recorded in commitments_made (chat line 208; the tests assign the list).
RecordCommitment(c) ==
    /\ Len(commitments_made) < MaxCommitments
    /\ commitments_made' = Append(commitments_made, c)
    /\ last_call' = [last_call EXCEPT !.op = "commit"]
    /\ UNCHANGED <<difficulty_level, vague_response_count, deflection_count,
                   system_prompt>>

\* reset() without its lines 285-286: the two counters are kept.
ResetKeepingCounts ==
    /\ conversation_history' = <<>>
    /\ difficulty_level' = 1
    /\ commitments_made' = <<>>
    /\ interrupted' = FALSE
    /\ system_prompt' = BuildSystemPrompt(1, vague_response_count, deflection_count, <<>>)
    /\ last_call' = [last_call EXCEPT !.op = "reset"]
    /\ UNCHANGED <<vague_response_count, deflection_count, last_chat>>

\* DifficultAI.reset().
Reset ==
    /\ conversation_history' = <<>>
    /\ difficulty_level' = 1
    /\ vague_response_count' = 0
    /\ deflection_count' = 0
    /\ commitments_made' = <<>>
    /\ interrupted' = FALSE
    /\ system_prompt' = BuildSystemPrompt(1, 0, 0, <<>>)
    /\ last_call' = [last_call EXCEPT !.op = "reset"]
    /\ UNCHANGED last_chat

\* ------------------------------------------------------ text (Python str)

\* The character U+0130 (capital I with dot above), written "#": str.lower() turns
\* it into two characters, "i" and the combining dot U+0307, written "~".
DottedCapitalI == "#"

UpperCase == "ABCDEFGHIJKLMNOPQRSTUVWXYZ"
LowerCase == "abcdefghijklmnopqrstuvwxyz"

\* The position of the character c in the string s, 0 if it is not there.
RECURSIVE PositionIn(_, _, _)
PositionIn(c, s, i) ==
    IF i > Len(s) THEN 0
    ELSE IF SubSeq(s, i, i) = c THEN i ELSE PositionIn(c, s, i + 1)

\* The lowercase letter of each capital letter.
LowerOfCapital ==
    [c \in {SubSeq(UpperCase, i, i) : i \in 1..Len(UpperCase)} |->
        SubSeq(LowerCase, PositionIn(c, UpperCase, 1), PositionIn(c, UpperCase, 1))]

\* str.lower() of one character.
LowerChar(c) ==
    IF c = DottedCapitalI THEN "i~"
    ELSE IF c \in DOMAIN LowerOfCapital THEN LowerOfCapital[c] ELSE c

\* str.lower().
RECURSIVE Lower(_)
Lower(s) == IF s = "" THEN "" ELSE LowerChar(Head(s)) \o Lower(Tail(s))

\* s[start:end] for 0 <= start, 0 <= end.
Slice(s, start, end) ==
    LET last == IF end < Len(s) THEN end ELSE Len(s)
    IN  IF start >= last THEN "" ELSE SubSeq(s, start + 1, last)

\* s.find(sub, start): the first index at or after start where sub occurs, or -1.
RECURSIVE Find(_, _, _)
Find(s, sub, start) ==
    IF start + Len(sub) > Len(s) THEN -1
    ELSE IF Slice(s, start, start + Len(sub)) = sub THEN start
         ELSE Find(s, sub, start + 1)

\* sub in s.
Contains(s, sub) == Find(s, sub, 0) # -1

\* any(x in s for x in subs).
ContainsAny(s, subs) == \E i \in DOMAIN subs : Contains(s, subs[i])

\* str.isspace() of one character.
IsSpace(c) == c = " "

\* str.isdigit() of one character.
IsDigit(c) == PositionIn(c, "0123456789", 1) # 0

RECURSIVE LStrip(_)
LStrip(s) == IF s # "" /\ IsSpace(Head(s)) THEN LStrip(Tail(s)) ELSE s

RECURSIVE RStrip(_)
RStrip(s) ==
    IF s # "" /\ IsSpace(SubSeq(s, Len(s), Len(s)))
    THEN RStrip(SubSeq(s, 1, Len(s) - 1)) ELSE s

\* str.strip().
Strip(s) == RStrip(LStrip(s))

\* len(s.split()): the number of maximal runs of non-space characters.
RECURSIVE WordCount(_)
WordCount(s) ==
    LET t == LStrip(s)
        sp == Find(t, " ", 0)
    IN  IF t = "" THEN 0
        ELSE IF sp = -1 THEN 1 ELSE 1 + WordCount(Slice(t, sp, Len(t)))

\* Lines 97-105: the indicator lists of _analyze_response_quality.
VagueIndicators ==
    <<"maybe", "possibly", "probably", "i think", "perhaps",
      "kind of", "sort of", "not sure", "we'll see", "hopefully">>

\* The deflection list with its fourth marker cut down to its first two words.
DeflectionIndicatorsCutShort ==
    <<"let's talk about", "what about", "but first",
      "before we", "can we discuss", "moving on">>

DeflectionIndicators ==
    <<"let's talk about", "what about", "but first",
      "before we get to that", "can we discuss", "moving on">>

\* Line 117: the weekday and month names.
DateWords ==
    <<"monday", "tuesday", "wednesday", "thursday", "friday", "saturday", "sunday",
      "january", "february", "march", "april", "may", "june", "july", "august",
      "september", "october", "november", "december">>

\* Line 118.
ActionVerbs == <<"will", "commit to", "promise", "guarantee", "deliver">>

\* _analyze_response_quality with the action verbs looked up in the text as it is
\* written, not in its lowercase.
AnalyzeResponseQualityAsWritten(user_message) ==
    LET message_lower     == Lower(user_message)
        has_numbers       == \E i \in 1..Len(user_message) :
                                IsDigit(SubSeq(user_message, i, i))
        has_specific_date == ContainsAny(message_lower, DateWords)
        has_action_verb   == ContainsAny(user_message, ActionVerbs)
    IN  [is_vague      |-> ContainsAny(message_lower, VagueIndicators),
         is_deflecting |-> ContainsAny(message_lower, DeflectionIndicators),
         is_concrete   |-> has_numbers \/ has_specific_date \/ has_action_verb,
         length        |-> WordCount(user_message)]

\* DifficultAI._analyze_response_quality(user_message): the dict it returns.
AnalyzeResponseQuality(user_message) ==
    LET message_lower     == Lower(user_message)
        has_numbers       == \E i \in 1..Len(user_message) :
                                IsDigit(SubSeq(user_message, i, i))
        has_specific_date == ContainsAny(message_lower, DateWords)
        has_action_verb   == ContainsAny(message_lower, ActionVerbs)
    IN  [is_vague      |-> ContainsAny(message_lower, VagueIndicators),
         is_deflecting |-> ContainsAny(message_lower, DeflectionIndicators),
         is_concrete   |-> has_numbers \/ has_specific_date \/ has_action_verb,
         length        |-> WordCount(user_message)]

\* Lines 170-173.
CommitmentPhrases ==
    <<"i will", "i'll", "i commit to", "i promise",
      "i guarantee", "we will", "we'll", "by">>

\* Lines 176-184: the commitments of the phrase, none or one.
CommitmentOf(user_message, message_lower, phrase) ==
    IF Contains(message_lower, phrase)
    THEN LET start      == Find(message_lower, phrase, 0)
             dot        == Find(message_lower, ".", start)
             end        == IF dot = -1 THEN Len(message_lower) ELSE dot
             commitment == Strip(Slice(user_message, start, end))
         IN  IF commitment # "" THEN <<commitment>> ELSE <<>>
    ELSE <<>>

\* Lines 175-184: the loop over commitment_phrases from the i-th phrase on.
RECURSIVE CommitmentsFrom(_, _, _)
CommitmentsFrom(user_message, message_lower, i) ==
    IF i > Len(CommitmentPhrases) THEN <<>>
    ELSE CommitmentOf(user_message, message_lower, CommitmentPhrases[i])
           \o CommitmentsFrom(user_message, message_lower, i + 1)

\* DifficultAI._extract_commitments(user_message).
ExtractCommitments(user_message) ==
    CommitmentsFrom(user_message, Lower(user_message), 1)

\* Line 200: the words that mark an interruption.
InterruptionIndicators == <<"wait", "stop", "hold on", "let me", "actually">>

\* Lines 199-200: the test that sets self.interrupted.
IsInterruption(user_message) ==
    /\ WordCount(user_message) <= 3
    /\ ContainsAny(Strip(Lower(user_message)), InterruptionIndicators)

\* Lines 233-239: quality_context.
QualityContext(analysis) ==
    (IF analysis.is_vague
     THEN <<"User gave a VAGUE response - challenge it directly">> ELSE <<>>)
    \o (IF analysis.is_deflecting
        THEN <<"User is DEFLECTING - escalate and force them back on topic">> ELSE <<>>)
    \o (IF ~analysis.is_concrete
        THEN <<"User provided NO CONCRETE DETAILS - demand specifics">> ELSE <<>>)

\* commitments_made.extend(new_commitments) keeping one copy of each text.
ExtendUnique(commitments, new_commitments) ==
    LET fresh == SelectSeq(new_commitments,
                           LAMBDA c : \A i \in DOMAIN commitments : commitments[i] # c)
    IN  commitments \o fresh

\* Line 208: commitments_made.extend(new_commitments).
Extend(commitments, new_commitments) == commitments \o new_commitments

\* The user messages of the model's runs.
UserMessages ==
    {"",
     "maybe",
     "But first, what about cost?",
     "I will deliver 10 units by Monday at 9am",
     "We'll ship it. I'll sign by Friday .",
     "#I PROMISE.",
     "Hold on",
     "Wait, let me explain"}

\* The texts of the direct calls of _analyze_response_quality and
\* _extract_commitments.
Texts ==
    UserMessages \cup
    {"Call me at 9", "See you in March", "Perhaps. Moving on.", "I COMMIT TO IT. ",
     "Before we start, a question", "BEFORE WE GET TO THAT, a question"}

\* What the three text analyses give on each text.
AnalysisOf == [m \in Texts |-> AnalyzeResponseQuality(m)]
CommitmentsOf == [m \in Texts |-> ExtractCommitments(m)]
InterruptionOf == [m \in Texts |-> IsInterruption(m)]

\* What the model request returns: the assistant's message, or an exception.
Replies == {"Be specific."}
RequestError == "APIError"
Outcomes == Replies \cup {RequestError}

NoChat ==
    [op |-> "none", message |-> "", analysis |-> NoAnalysis, extracted |-> <<>>,
     interrupting |-> FALSE, quality_context |-> <<>>, outcome |-> ""]

\* The chat calls that have added their user message to the history.
ChatCount ==
    Cardinality({i \in DOMAIN conversation_history :
                    conversation_history[i].role = "user"})

\* chat with line 211 before line 208: the difficulty updated before the
\* commitments of the utterance are appended.
ChatUpdatingFirst(user_message, outcome) ==
    /\ ChatCount < MaxChats
    /\ \E analysis \in {AnalysisOf[user_message]},
          new_commitments \in {CommitmentsOf[user_message]} :
          LET was_interrupted == interrupted \/ InterruptionOf[user_message]
              extended == Extend(commitments_made, new_commitments)
              s1 == VagueStep(AgentState, analysis)
              s2 == DeflectStep(s1, analysis)
              s3 == ConcreteStep(s2, analysis, commitments_made)
              with_user == Append(conversation_history,
                                  [role |-> "user", content |-> user_message])
          IN  /\ commitments_made' = extended
              /\ difficulty_level' = s3.level
              /\ vague_response_count' = s3.vague
              /\ deflection_count' = s3.deflection
              /\ system_prompt' = BuildSystemPrompt(s3.level, s3.vague, s3.deflection,
                                                    extended)
              /\ interrupted' = FALSE
              /\ conversation_history' =
                    IF outcome = RequestError THEN with_user
                    ELSE Append(with_user, [role |-> "assistant", content |-> outcome])
              /\ last_call' = [op |-> "chat", analysis |-> analysis,
                               before |-> AgentState, after_vague |-> s1,
                               after_deflect |-> s2, commitments |-> Len(extended)]
              /\ last_chat' = [op |-> "chat", message |-> user_message,
                               analysis |-> analysis, extracted |-> new_commitments,
                               interrupting |-> was_interrupted,
                               quality_context |-> QualityContext(analysis),
                               outcome |-> outcome]

\* DifficultAI.chat(user_message); outcome is what the model request does.
Chat(user_message, outcome) ==
    /\ ChatCount < MaxChats
    /\ \E analysis \in {AnalysisOf[user_message]},
          new_commitments \in {CommitmentsOf[user_message]} :
          LET was_interrupted == interrupted \/ InterruptionOf[user_message]
              extended == Extend(commitments_made, new_commitments)
              s1 == VagueStep(AgentState, analysis)
              s2 == DeflectStep(s1, analysis)
              s3 == ConcreteStep(s2, analysis, extended)
              with_user == Append(conversation_history,
                                  [role |-> "user", content |-> user_message])
          IN  /\ commitments_made' = extended
              /\ difficulty_level' = s3.level
              /\ vague_response_count' = s3.vague
              /\ deflection_count' = s3.deflection
              /\ system_prompt' = BuildSystemPrompt(s3.level, s3.vague, s3.deflection,
                                                    extended)
              /\ interrupted' = FALSE
              /\ conversation_history' =
                    IF outcome = RequestError THEN with_user
                    ELSE Append(with_user, [role |-> "assistant", content |-> outcome])
              /\ last_call' = [op |-> "chat", analysis |-> analysis,
                               before |-> AgentState, after_vague |-> s1,
                               after_deflect |-> s2, commitments |-> Len(extended)]
              /\ last_chat' = [op |-> "chat", message |-> user_message,
                               analysis |-> analysis, extracted |-> new_commitments,
                               interrupting |-> was_interrupted,
                               quality_context |-> QualityContext(analysis),
                               outcome |-> outcome]

\* DifficultAI.get_stats().
GetStats ==
    [difficulty_level     |-> difficulty_level,
     vague_response_count |-> vague_response_count,
     deflection_count     |-> deflection_count,
     commitments_made     |-> Len(commitments_made),
     commitments          |-> commitments_made,
     total_exchanges      |-> Len(conversation_history) \div 2]

\* A call of _analyze_response_quality alone, as the tests make it.
AnalyzeCall(user_message) ==
    /\ ChatCount < MaxChats
    /\ last_chat' = [NoChat EXCEPT !.op = "analyze", !.message = user_message,
                                   !.analysis = AnalysisOf[user_message]]
    /\ UNCHANGED <<difficulty_level, vague_response_count, deflection_count,
                   commitments_made, system_prompt, last_call,
                   conversation_history, interrupted>>

\* A call of _extract_commitments alone, as the tests make it.
ExtractCall(user_message) ==
    /\ ChatCount < MaxChats
    /\ last_chat' = [NoChat EXCEPT !.op = "extract", !.message = user_message,
                                   !.extracted = CommitmentsOf[user_message]]
    /\ UNCHANGED <<difficulty_level, vague_response_count, deflection_count,
                   commitments_made, system_prompt, last_call,
                   conversation_history, interrupted>>

\* ------------------------------------------- EvaluatorAgent (agents/evaluator.py)

Abs(n) == IF n < 0 THEN 0 - n ELSE n

RECURSIVE GCD(_, _)
GCD(a, b) == IF b = 0 THEN a ELSE GCD(b, a % b)

\* What a division by zero leaves: Python raises ZeroDivisionError there.
ZeroDivision == [num |-> 0, den |-> 0]

\* The float n/d, d >= 0, as an exact rational in lowest terms.
Rat(n, d) ==
    IF d = 0 THEN ZeroDivision
    ELSE LET g == GCD(Abs(n), d) IN [num |-> n \div g, den |-> d \div g]

RInt(n) == [num |-> n, den |-> 1]
RNeg(a) == [num |-> 0 - a.num, den |-> a.den]
RLt(a, b) == a.num * b.den < b.num * a.den
RLe(a, b) == a.num * b.den <= b.num * a.den
RAdd(a, b) == Rat(a.num * b.den + b.num * a.den, a.den * b.den)
RSub(a, b) == Rat(a.num * b.den - b.num * a.den, a.den * b.den)
RMul(a, b) == Rat(a.num * b.num, a.den * b.den)
REq(a, b) == a.num * b.den = b.num * a.den
\* a / b for b >= 0.
RDiv(a, b) == Rat(a.num * b.den, a.den * b.num)
\* Python's max(a, b) and min(a, b): the first argument on a tie.
RMax(a, b) == IF a.den = 0 \/ b.den = 0 THEN ZeroDivision ELSE IF RLt(a, b) THEN b ELSE a
RMin(a, b) == IF a.den = 0 \/ b.den = 0 THEN ZeroDivision ELSE IF RLt(b, a) THEN b ELSE a

\* dict.get(k, 0) whatever the default given.
GetOrZero(m, k, default) == IF k \in DOMAIN m THEN m[k] ELSE 0

\* dict.get(k, default).
Get(m, k, default) == IF k \in DOMAIN m THEN m[k] ELSE default

\* max(0.0, min(100.0, score)), the last line of every _calculate_*_score.
Clamp100(score) == RMax(RInt(0), RMin(RInt(100), score))

\* The conversion as score_100 / 10, which gives 0 for 0.
ConvertTo10ScaleTenth(score_100) == RDiv(score_100, RInt(10))

\* _convert_to_10_scale.
ConvertTo10Scale(score_100) ==
    RMax(RInt(1), RMin(RInt(10), RAdd(RInt(1), RMul(RDiv(score_100, RInt(100)), RInt(9)))))

\* _calculate_composure_score.
CalculateComposureScore(m) ==
    LET vague_count      == Get(m, "vague_response_count", 0)
        deflection_cnt   == Get(m, "deflection_count", 0)
        total_exchanges  == Get(m, "total_exchanges", 1)
    IN  IF total_exchanges = 0
        THEN RInt(100)
        ELSE LET stress_indicators == Rat(vague_count + deflection_cnt, total_exchanges)
             IN  Clamp100(RSub(RInt(100), RMul(stress_indicators, RInt(50))))

\* _calculate_clarity_score.
CalculateClarityScore(m) ==
    LET vague_count      == Get(m, "vague_response_count", 0)
        total_exchanges  == Get(m, "total_exchanges", 1)
    IN  IF total_exchanges = 0
        THEN RInt(100)
        ELSE LET vague_ratio == Rat(vague_count, total_exchanges)
             IN  Clamp100(RSub(RInt(100), RMul(vague_ratio, RInt(100))))

\* The confidence score taken from vague_response_count, as clarity is.
CalculateConfidenceScoreOfVague(m) ==
    LET vague_count      == Get(m, "vague_response_count", 0)
        total_exchanges  == Get(m, "total_exchanges", 1)
    IN  IF total_exchanges = 0
        THEN RInt(100)
        ELSE LET vague_ratio == Rat(vague_count, total_exchanges)
             IN  Clamp100(RSub(RInt(100), RMul(vague_ratio, RInt(100))))

\* _calculate_confidence_score.
CalculateConfidenceScore(m) ==
    LET deflection_cnt   == Get(m, "deflection_count", 0)
        total_exchanges  == Get(m, "total_exchanges", 1)
    IN  IF total_exchanges = 0
        THEN RInt(100)
        ELSE LET deflection_ratio == Rat(deflection_cnt, total_exchanges)
             IN  Clamp100(RSub(RInt(100), RMul(deflection_ratio, RInt(100))))

\* The commitment score without its guard total_exchanges == 0.
CalculateCommitmentScoreUnguarded(m) ==
    LET commitments      == Get(m, "commitments_made", 0)
        total_exchanges  == Get(m, "total_exchanges", 1)
        target_ratio     == Rat(1, 3)
        actual_ratio     == Rat(commitments, total_exchanges)
    IN  Clamp100(RMul(RDiv(actual_ratio, target_ratio), RInt(100)))

\* The commitment score against a target of 1 commitment per 2 exchanges.
CalculateCommitmentScorePerTwo(m) ==
    LET commitments      == Get(m, "commitments_made", 0)
        total_exchanges  == Get(m, "total_exchanges", 1)
    IN  IF total_exchanges = 0
        THEN RInt(0)
        ELSE LET target_ratio == Rat(1, 2)
                 actual_ratio == Rat(commitments, total_exchanges)
             IN  Clamp100(RMul(RDiv(actual_ratio, target_ratio), RInt(100)))

\* _calculate_commitment_score.
CalculateCommitmentScore(m) ==
    LET commitments      == Get(m, "commitments_made", 0)
        total_exchanges  == Get(m, "total_exchanges", 1)
    IN  IF total_exchanges = 0
        THEN RInt(0)
        ELSE LET target_ratio == Rat(1, 3)
                 actual_ratio == Rat(commitments, total_exchanges)
             IN  Clamp100(RMul(RDiv(actual_ratio, target_ratio), RInt(100)))

\* The adaptability score penalising a difficulty that fell as one that rose.
CalculateAdaptabilityScoreEitherWay(m) ==
    LET current_difficulty  == Get(m, "current_difficulty", 10)
        scenario_difficulty == Get(m, "scenario_difficulty", 10)
        difficulty_delta    == Rat(Abs(current_difficulty - scenario_difficulty), 10)
    IN  IF RLe(difficulty_delta, RInt(0))
        THEN Clamp100(RInt(100))
        ELSE Clamp100(RSub(RInt(100), RMul(difficulty_delta, RInt(20))))

\* _calculate_adaptability_score; the difficulties are in tenths, the default 1 is 10.
CalculateAdaptabilityScore(m) ==
    LET current_difficulty  == Get(m, "current_difficulty", 10)
        scenario_difficulty == Get(m, "scenario_difficulty", 10)
        difficulty_delta    == Rat(current_difficulty - scenario_difficulty, 10)
    IN  IF RLe(difficulty_delta, RInt(0))
        THEN Clamp100(RInt(100))
        ELSE Clamp100(RSub(RInt(100), RMul(difficulty_delta, RInt(20))))

\* Lines 84-90: the weighted blend of the internal 0-100 scores.
EffectivenessScore(clarity, confidence, commitment, adaptability, composure) ==
    RAdd(RAdd(RAdd(RAdd(RMul(clarity, Rat(25, 100)),
                        RMul(confidence, Rat(2, 10))),
                   RMul(commitment, Rat(25, 100))),
              RMul(adaptability, Rat(15, 100))),
         RMul(composure, Rat(15, 100)))

Dimensions ==
    {"clarity", "confidence", "commitment", "adaptability", "composure", "effectiveness"}

\* The internal scores with the effectiveness blended from the rescaled scores.
InternalScoresBlendRescaled(m) ==
    LET clarity_score      == CalculateClarityScore(m)
        confidence_score   == CalculateConfidenceScore(m)
        commitment_score   == CalculateCommitmentScore(m)
        adaptability_score == CalculateAdaptabilityScore(m)
        composure_score    == CalculateComposureScore(m)
    IN  [clarity       |-> clarity_score,
         confidence    |-> confidence_score,
         commitment    |-> commitment_score,
         adaptability  |-> adaptability_score,
         composure     |-> composure_score,
         effectiveness |->
            EffectivenessScore(ConvertTo10Scale(clarity_score),
                               ConvertTo10Scale(confidence_score),
                               ConvertTo10Scale(commitment_score),
                               ConvertTo10Scale(adaptability_score),
                               ConvertTo10Scale(composure_score))]

\* Lines 77-90: the internal 0-100 scores.
InternalScores(m) ==
    LET clarity_score      == CalculateClarityScore(m)
        confidence_score   == CalculateConfidenceScore(m)
        commitment_score   == CalculateCommitmentScore(m)
        adaptability_score == CalculateAdaptabilityScore(m)
        composure_score    == CalculateComposureScore(m)
    IN  [clarity       |-> clarity_score,
         confidence    |-> confidence_score,
         commitment    |-> commitment_score,
         adaptability  |-> adaptability_score,
         composure     |-> composure_score,
         effectiveness |->
            EffectivenessScore(clarity_score, confidence_score, commitment_score,
                               adaptability_score, composure_score)]

\* Lines 93-100: PerformanceScore, as to_dict returns it, of the internal scores.
ScoresOf(internal) ==
        [clarity       |-> ConvertTo10Scale(internal.clarity),
         confidence    |-> ConvertTo10Scale(internal.confidence),
         commitment    |-> ConvertTo10Scale(internal.commitment),
         adaptability  |-> ConvertTo10Scale(internal.adaptability),
         composure     |-> ConvertTo10Scale(internal.composure),
         effectiveness |-> ConvertTo10Scale(internal.effectiveness)]

Scores(m) == ScoresOf(InternalScores(m))

\* Whether evaluate_conversation raises ZeroDivisionError on m.
Raises(m) ==
    LET internal == InternalScores(m)
    IN  \E dim \in Dimensions : internal[dim].den = 0

\* A coaching candidate (category, text): the category is the dimension's name, with
\* the suffix "_strength" (strength = TRUE) for a strength message.
Candidate(dim, strength, text) == [dim |-> dim, strength |-> strength, text |-> text]

WeaknessText(dim) ==
    CASE dim = "clarity" ->
           "Focus on specificity: Replace vague language with concrete numbers, dates, and commitments"
      [] dim = "confidence" ->
           "Address questions directly: Avoid deflecting or changing topics when challenged"
      [] dim = "commitment" ->
           "Make concrete commitments: Include specific timelines and measurable deliverables"
      [] dim = "adaptability" ->
           "Improve under pressure: Practice maintaining performance when difficulty increases"
      [] dim = "composure" ->
           "Stay calm and collected: Take a breath before responding when feeling pressured"
      [] dim = "effectiveness" ->
           "Align responses with goals: Keep your objective in mind and steer toward it"

StrengthText(dim) ==
    CASE dim = "clarity" ->
           "Excellent clarity - maintain this level of specificity in future conversations"
      [] dim = "confidence" ->
           "Strong confidence shown - keep facing difficult questions head-on"
      [] dim = "commitment" ->
           "Great commitment quality - continue providing specific, actionable promises"

FillerText == "Continue practicing high-pressure conversations to build resilience"

\* Lines 269-290: the if/elif of clarity, confidence and commitment.
WeakOrStrong(scores, dim) ==
    IF RLt(scores[dim], RInt(5))
    THEN <<Candidate(dim, FALSE, WeaknessText(dim))>>
    ELSE IF RLe(RInt(8), scores[dim])
         THEN <<Candidate(dim, TRUE, StrengthText(dim))>>
         ELSE <<>>

\* Lines 293-305: the weakness-only rules of adaptability, composure, effectiveness.
WeakOnly(scores, dim) ==
    IF RLt(scores[dim], RInt(5))
    THEN <<Candidate(dim, FALSE, WeaknessText(dim))>>
    ELSE <<>>

\* Lines 265-305: coaching_candidates in the order the rules append them.
CoachingCandidates(scores) ==
    WeakOrStrong(scores, "clarity") \o WeakOrStrong(scores, "confidence")
      \o WeakOrStrong(scores, "commitment") \o WeakOnly(scores, "adaptability")
      \o WeakOnly(scores, "composure") \o WeakOnly(scores, "effectiveness")

\* Lines 309-312: key(a) < key(b) for the sort key
\* (0 if "strength" not in category else 1, -scores[dimension]).
SortKeyLess(scores, a, b) ==
    LET group(x) == IF x.strength THEN 1 ELSE 0
        neg(x)   == RNeg(scores[x.dim])
    IN  \/ group(a) < group(b)
        \/ group(a) = group(b) /\ RLt(neg(a), neg(b))

\* x put into the sorted sequence s after every element whose key is not greater.
RECURSIVE InsertSorted(_, _, _)
InsertSorted(scores, s, x) ==
    IF s = <<>> THEN <<x>>
    ELSE IF SortKeyLess(scores, x, Head(s))
         THEN <<x>> \o s
         ELSE <<Head(s)>> \o InsertSorted(scores, Tail(s), x)

\* list.sort(key=...): a stable sort.
RECURSIVE SortCandidates(_, _)
SortCandidates(scores, cands) ==
    IF cands = <<>> THEN <<>>
    ELSE InsertSorted(scores,
                      SortCandidates(scores, SubSeq(cands, 1, Len(cands) - 1)),
                      cands[Len(cands)])

\* s[:n]
Take(s, n) == SubSeq(s, 1, IF Len(s) < n THEN Len(s) ELSE n)

\* No padding: the candidates as they are.
PadTo3Never(points) == points

\* Lines 317-318: while len(coaching_points) < 3: append the filler.
RECURSIVE PadTo3(_)
PadTo3(points) == IF Len(points) < 3 THEN PadTo3(Append(points, FillerText)) ELSE points

\* Lines 314-318.
CoachingPoints(scores) ==
    LET sorted == SortCandidates(scores, CoachingCandidates(scores))
    IN  PadTo3([i \in 1..Len(Take(sorted, 3)) |-> sorted[i].text])

\* The f-strings of the three key-moment lines.
KindVague == "Review {n} instances of vague language"
KindDeflection == "Examine {n} deflection patterns"
KindCommitments == "Note {n} successful commitments made"

\* One key-moment line: the f-string's fixed text and the count it interpolates.
KeyMoment(kind, n) == [kind |-> kind, count |-> n]

FallbackMoment == KeyMoment("Review full transcript for improvement opportunities", 0)

\* The key moments without the fallback line.
KeyMomentsNoFallback(m) ==
    (IF Get(m, "vague_response_count", 0) > 0
     THEN <<KeyMoment(KindVague, m["vague_response_count"])>>
     ELSE <<>>)
    \o (IF Get(m, "deflection_count", 0) > 0
        THEN <<KeyMoment(KindDeflection, m["deflection_count"])>>
        ELSE <<>>)
    \o (IF Get(m, "commitments_made", 0) > 0
        THEN <<KeyMoment(KindCommitments, m["commitments_made"])>>
        ELSE <<>>)

\* Lines 321-331.
KeyMoments(m) ==
    LET vague == IF Get(m, "vague_response_count", 0) > 0
                 THEN <<KeyMoment(KindVague,
                                  m["vague_response_count"])>>
                 ELSE <<>>
        defl  == IF Get(m, "deflection_count", 0) > 0
                 THEN <<KeyMoment(KindDeflection,
                                  m["deflection_count"])>>
                 ELSE <<>>
        comm  == IF Get(m, "commitments_made", 0) > 0
                 THEN <<KeyMoment(KindCommitments,
                                  m["commitments_made"])>>
                 ELSE <<>>
        key_moments == vague \o defl \o comm
    IN  IF key_moments = <<>> THEN <<FallbackMoment>> ELSE key_moments

\* _generate_feedback: Feedback(coaching_points[:3], key_moments).
GenerateFeedback(m, scores, scen) ==
    [coaching_points |-> Take(CoachingPoints(scores), 3),
     key_moments     |-> KeyMoments(m)]

\* Lines 92-113: the evaluation dict of evaluate_conversation, of the internal scores.
EvaluationOf(m, scen, internal) ==
    LET scores   == ScoresOf(internal)
        feedback == GenerateFeedback(m, scores, scen)
    IN  [scores   |-> scores,
         feedback |-> [coaching_points |-> Take(feedback.coaching_points, 3),
                       key_moments     |-> feedback.key_moments],
         metrics  |-> m,
         scenario |-> scen]

Evaluation(m, scen) == EvaluationOf(m, scen, InternalScores(m))

\* The evaluator instances.
Evaluators == {"evaluator_1", "evaluator_2"}

\* Difficulty values in tenths: 0.5 and 0.6 of the normalized scale, 2 and 5 of the
\* legacy scale.
DifficultyTenths == {5, 6, 20, 50}

\* The records with the field k, or without it.
Optional(k, values) == {<<>>} \cup {(k :> v) : v \in values}

\* A metrics record with all six fields.
Metrics(vague, deflections, commitments, exchanges, current, scen) ==
    [vague_response_count |-> vague,
     deflection_count     |-> deflections,
     commitments_made     |-> commitments,
     total_exchanges      |-> exchanges,
     current_difficulty   |-> current,
     scenario_difficulty  |-> scen]

\* A high-quality session of 5 exchanges at difficulty 2 (test_score_calculations).
SessionOfFive == Metrics(0, 0, 3, 5, 20, 20)

\* A session of 6 exchanges, half of them vague, at difficulty 0.6 against 0.5.
SessionOfSix == Metrics(3, 0, 1, 6, 6, 5)

\* The metrics records: each of the six fields present or missing, and the two
\* sessions above.
MetricsRecords ==
    {SessionOfFive, SessionOfSix} \cup
    {a @@ b @@ c @@ d @@ e @@ f :
        a \in Optional("vague_response_count", 0..MaxMetricCount),
        b \in Optional("deflection_count", 0..MaxMetricCount),
        c \in Optional("commitments_made", 0..MaxMetricCount),
        d \in Optional("total_exchanges", 0..MaxExchanges),
        e \in Optional("current_difficulty", DifficultyTenths),
        f \in Optional("scenario_difficulty", DifficultyTenths)}

NoScenario == [present |-> FALSE, persona_type |-> "", difficulty |-> 0]

\* scenario: None, or a scenario dict.
Scenarios ==
    {NoScenario,
     [present |-> TRUE, persona_type |-> "ELITE_INTERVIEWER", difficulty |-> 6]}

NoEvaluations == [e \in Evaluators |-> <<>>]

\* No evaluate_conversation call made yet.
NoCall ==
    [evaluator |-> "none", internal |-> <<>>, returned |-> <<>>,
     calls |-> [e \in Evaluators |-> 0]]

\* The call on evaluator e: its internal 0-100 scores (the locals of lines 77-90),
\* the evaluation dict it returned, and the calls made on each evaluator so far.
Call(e, internal, evaluation) ==
    [evaluator |-> e, internal |-> internal, returned |-> <<evaluation>>,
     calls |-> [last_evaluation.calls EXCEPT ![e] = @ + 1]]

RECURSIVE SumLen(_, _)
SumLen(f, S) ==
    IF S = {} THEN 0
    ELSE LET x == CHOOSE y \in S : TRUE IN Len(f[x]) + SumLen(f, S \ {x})

\* The evaluate_conversation calls made so far, on all evaluators.
TotalEvaluations == SumLen(evaluations, Evaluators)

\* EvaluatorAgent() for each instance; the session's metrics and scenario.
InitEvaluator ==
    /\ metrics \in MetricsRecords
    /\ scenario \in Scenarios
    /\ evaluations = NoEvaluations
    /\ last_evaluation = NoCall
    /\ raised = "none"

\* evaluate_conversation with key_moments kept on the instance: each call's key
\* moments follow those of the evaluator's previous call.
EvaluateConversationShared(e) ==
    /\ TotalEvaluations < MaxEvaluations
    /\ \E internal \in {InternalScores(metrics)} :
          LET evaluation == EvaluationOf(metrics, scenario, internal)
              earlier    == IF evaluations[e] = <<>> THEN <<>>
                            ELSE evaluations[e][Len(evaluations[e])].feedback.key_moments
          IN  \E shared \in {[evaluation EXCEPT !.feedback.key_moments = earlier \o @]} :
                 /\ evaluations' = [evaluations EXCEPT ![e] = Append(@, shared)]
                 /\ last_evaluation' = Call(e, internal, shared)
    /\ raised' = "none"
    /\ UNCHANGED <<metrics, scenario>>

\* evaluate_conversation keeping only the latest record: evaluations = [evaluation].
EvaluateConversationLatestOnly(e) ==
    /\ \A o \in Evaluators : last_evaluation.calls[o] < MaxEvaluations
    /\ \E internal \in {InternalScores(metrics)} :
          \E evaluation \in {EvaluationOf(metrics, scenario, internal)} :
             /\ raised' = "none"
             /\ evaluations' = [evaluations EXCEPT ![e] = <<evaluation>>]
             /\ last_evaluation' = Call(e, internal, evaluation)
    /\ UNCHANGED <<metrics, scenario>>

\* EvaluatorAgent.evaluate_conversation(metrics, scenario) on evaluator e.
EvaluateConversation(e) ==
    /\ TotalEvaluations < MaxEvaluations
    /\ \E internal \in {InternalScores(metrics)} :
          IF \E dim \in Dimensions : internal[dim].den = 0
          THEN /\ raised' = "ZeroDivisionError"
               /\ last_evaluation' = [last_evaluation EXCEPT !.calls[e] = @ + 1]
               /\ UNCHANGED evaluations
          ELSE \E evaluation \in {EvaluationOf(metrics, scenario, internal)} :
                  /\ raised' = "none"
                  /\ evaluations' = [evaluations EXCEPT ![e] = Append(@, evaluation)]
                  /\ last_evaluation' = Call(e, internal, evaluation)
    /\ UNCHANGED <<metrics, scenario>>

\* ------------------- scenario validation (apps/livekit_agent/scenario_validator.py)

\* The Python values of a scenario dict: a str, None, or an int or float; a float
\* is an exact rational, NaN and inf apart.
Str(text) == [type |-> "str", text |-> text]
None == [type |-> "NoneType"]
NaN == [num |-> 0, den |-> 0]
Infinity == [num |-> 1, den |-> 0]
Number(value) == [type |-> "number", value |-> value]

\* a < b on floats: false when either is NaN.
FloatLt(a, b) == a # NaN /\ b # NaN /\ RLt(a, b)

\* bool(v).
Truthy(v) ==
    IF v.type = "str" THEN v.text # ""
    ELSE IF v.type = "number" THEN v.value.num # 0 \/ v.value.den = 0
    ELSE FALSE

\* a or b.
Or(a, b) == IF Truthy(a) THEN a ELSE b

\* The value of a run of decimal digits.
RECURSIVE DigitsValue(_)
DigitsValue(s) ==
    IF s = "" THEN 0
    ELSE DigitsValue(SubSeq(s, 1, Len(s) - 1)) * 10
           + (PositionIn(SubSeq(s, Len(s), Len(s)), "0123456789", 1) - 1)

AllDigits(s) == \A i \in 1..Len(s) : IsDigit(SubSeq(s, i, i))

RECURSIVE PowerOfTen(_)
PowerOfTen(n) == IF n = 0 THEN 1 ELSE 10 * PowerOfTen(n - 1)

\* What float() makes of a value, or that it raises.
ConversionError == [ok |-> FALSE]
Converted(value) == [ok |-> TRUE, value |-> value]

\* float(s) of a str without exponent and underscore: blanks stripped, a sign,
\* then "nan", "inf" or "infinity" in any case, or digits with at most one point
\* and a digit on either side of it; ValueError otherwise.
ParseFloat(s) ==
    LET t        == Lower(Strip(s))
        signed   == t # "" /\ Head(t) \in {"+", "-"}
        negative == t # "" /\ Head(t) = "-"
        body     == IF signed THEN Tail(t) ELSE t
        point    == Find(body, ".", 0)
        whole    == IF point = -1 THEN body ELSE Slice(body, 0, point)
        fraction == IF point = -1 THEN "" ELSE Slice(body, point + 1, Len(body))
        value    == Rat(DigitsValue(whole) * PowerOfTen(Len(fraction))
                            + DigitsValue(fraction),
                        PowerOfTen(Len(fraction)))
    IN  IF body = "nan" THEN Converted(NaN)
        ELSE IF body \in {"inf", "infinity"}
        THEN Converted(IF negative THEN RNeg(Infinity) ELSE Infinity)
        ELSE IF AllDigits(whole) /\ AllDigits(fraction) /\ whole \o fraction # ""
        THEN Converted(IF negative THEN RNeg(value) ELSE value)
        ELSE ConversionError

\* float(v): ValueError for a str that is no number, TypeError for None.
ToFloat(v) ==
    IF v.type = "number" THEN Converted(v.value)
    ELSE IF v.type = "str" THEN ParseFloat(v.text)
    ELSE ConversionError

\* [p.value for p in PersonaType] (agents/architect.py).
ValidPersonas ==
    <<"ANGRY_CUSTOMER", "ELITE_INTERVIEWER", "TOUGH_NEGOTIATOR",
      "SKEPTICAL_INVESTOR", "DEMANDING_CLIENT">>

\* ', '.join(items).
RECURSIVE Join(_)
Join(items) ==
    IF items = <<>> THEN ""
    ELSE IF Len(items) = 1 THEN items[1]
    ELSE items[1] \o ", " \o Join(Tail(items))

\* scenario.get('persona_type') or scenario.get('persona'), and the same of the goal.
PersonaValue(s) == Or(Get(s, "persona_type", None), Get(s, "persona", None))
GoalsValue(s) == Or(Get(s, "user_goal", None), Get(s, "goals", None))

\* Lines 30 and 89.
RequiredFields == <<"company", "role", "stakes">>

\* Lines 52-54 and 105-107: the loop over required_fields from the i-th on.
RECURSIVE MissingRequired(_, _)
MissingRequired(s, i) ==
    IF i > Len(RequiredFields) THEN <<>>
    ELSE (IF RequiredFields[i] \notin DOMAIN s \/ ~Truthy(s[RequiredFields[i]])
          THEN <<RequiredFields[i]>> ELSE <<>>)
           \o MissingRequired(s, i + 1)

\* Lines 66-71: the range check of the difficulty.
DifficultyErrors(s) ==
    IF "difficulty" \in DOMAIN s /\ s["difficulty"] # None
    THEN LET diff == ToFloat(s["difficulty"])
         IN  IF ~diff.ok THEN <<"difficulty must be a number between 0 and 1">>
             ELSE IF FloatLt(diff.value, RInt(0)) \/ FloatLt(RInt(1), diff.value)
             THEN <<"difficulty must be between 0 and 1 (0 = easy, 1 = maximum pressure)">>
             ELSE <<>>
    ELSE <<>>

\* validate_scenario(scenario): the error messages in the order they are appended.
ValidateScenario(s) ==
    LET persona_value == PersonaValue(s)
        missing       == MissingRequired(s, 1)
    IN  (IF ~Truthy(persona_value)
         THEN <<"Missing required field: persona_type (or persona)">> ELSE <<>>)
        \o (IF ~Truthy(GoalsValue(s))
            THEN <<"Missing required field: user_goal (or goals)">> ELSE <<>>)
        \o (IF "difficulty" \notin DOMAIN s \/ s["difficulty"] = None
            THEN <<"Missing required field: difficulty">> ELSE <<>>)
        \o [i \in DOMAIN missing |-> "Missing required field: " \o missing[i]]
        \o (IF /\ Truthy(persona_value)
               /\ \A i \in DOMAIN ValidPersonas : Str(ValidPersonas[i]) # persona_value
            THEN <<"Invalid persona_type: " \o persona_value.text
                     \o ". Must be one of: " \o Join(ValidPersonas)>>
            ELSE <<>>)
        \o DifficultyErrors(s)

\* get_missing_fields(scenario).
GetMissingFields(s) ==
    (IF ~Truthy(PersonaValue(s)) THEN <<"persona_type">> ELSE <<>>)
        \o (IF ~Truthy(GoalsValue(s)) THEN <<"user_goal">> ELSE <<>>)
        \o (IF "difficulty" \notin DOMAIN s \/ s["difficulty"] = None
            THEN <<"difficulty">> ELSE <<>>)
        \o MissingRequired(s, 1)

\* is_scenario_complete(scenario).
IsScenarioComplete(s) == Len(ValidateScenario(s)) = 0

\* The scenario dicts handed to the validator: each field missing, empty, None
\* or set; the persona valid or not; the difficulty a number inside or outside
\* [0, 1], NaN, or a str that float() takes or refuses.
ScenarioDicts ==
    {a @@ b @@ c @@ d @@ e @@ f @@ g @@ h :
        a \in Optional("persona_type",
                       {None, Str(""), Str("ELITE_INTERVIEWER"), Str("INVALID_PERSONA")}),
        b \in Optional("persona", {Str("ANGRY_CUSTOMER"), Str("boss")}),
        c \in Optional("user_goal", {Str(""), Str("Get hired")}),
        d \in Optional("goals", {Str("Get hired")}),
        e \in Optional("difficulty",
                       {None, Number(RInt(0)), Number(Rat(6, 10)), Number(RInt(1)),
                        Number(RInt(2)), Number(Rat(-1, 10)), Number(NaN),
                        Str("0.5"), Str(" 1 "), Str("medium"), Str("nan")}),
        f \in Optional("company", {Str(""), Str("TechCorp")}),
        g \in Optional("role", {Str("Engineer")}),
        h \in Optional("stakes", {Str("Job interview")})}

\* Tracing disabled (OPIK_DISABLED), no trace in the context.
TracerOff == [enabled |-> FALSE, current |-> 0, traces |-> <<>>]

\* No call of the validator made yet.
NoValidation ==
    [called |-> {}, errors |-> <<>>, missing |-> <<>>, complete |-> FALSE]

\* A call of validate_scenario on the session's scenario.
ValidateCall ==
    /\ last_validation' = [last_validation EXCEPT
                              !.called = @ \cup {"validate_scenario"},
                              !.errors = ValidateScenario(session.scenario)]
    /\ UNCHANGED <<session, entrypoint, tracer, span>>

\* A call of get_missing_fields on the session's scenario.
MissingCall ==
    /\ last_validation' = [last_validation EXCEPT
                              !.called = @ \cup {"get_missing_fields"},
                              !.missing = GetMissingFields(session.scenario)]
    /\ UNCHANGED <<session, entrypoint, tracer, span>>

\* A call of is_scenario_complete on the session's scenario.
CompleteCall ==
    /\ last_validation' = [last_validation EXCEPT
                              !.called = @ \cup {"is_scenario_complete"},
                              !.complete = IsScenarioComplete(session.scenario)]
    /\ UNCHANGED <<session, entrypoint, tracer, span>>

\* SessionState.__init__ (agent.py lines 72-79).
NewSession ==
    [scenario                |-> <<>>,
     transcript              |-> <<>>,
     collecting_metadata     |-> FALSE,
     current_question_field  |-> None,
     session_started         |-> FALSE]

\* --------------------------- the LiveKit agent (apps/livekit_agent/agent.py)

\* str.upper() of one character, and of a str.
UpperOfSmall ==
    [c \in {SubSeq(LowerCase, i, i) : i \in 1..Len(LowerCase)} |->
        SubSeq(UpperCase, PositionIn(c, LowerCase, 1), PositionIn(c, LowerCase, 1))]

UpperChar(c) == IF c \in DOMAIN UpperOfSmall THEN UpperOfSmall[c] ELSE c

RECURSIVE Upper(_)
Upper(s) == IF s = "" THEN "" ELSE UpperChar(Head(s)) \o Upper(Tail(s))

\* The number of digits at the start of s.
RECURSIVE LeadingDigits(_)
LeadingDigits(s) ==
    IF s # "" /\ IsDigit(Head(s)) THEN 1 + LeadingDigits(Tail(s)) ELSE 0

\* re.findall(r'\d+\.?\d*', text): its first match, or that there is none.
RECURSIVE FirstNumber(_)
FirstNumber(text) ==
    IF text = "" THEN <<>>
    ELSE IF ~IsDigit(Head(text)) THEN FirstNumber(Tail(text))
    ELSE LET whole == LeadingDigits(text)
             rest  == Slice(text, whole, Len(text))
             point == IF rest # "" /\ Head(rest) = "." THEN 1 ELSE 0
             frac  == LeadingDigits(Slice(rest, point, Len(rest)))
         IN  <<Slice(text, 0, whole + point + frac)>>

\* scenario[key] = value.
DictSet(d, key, value) ==
    [k \in DOMAIN d \cup {key} |-> IF k = key THEN value ELSE d[k]]

\* Lines 493-498: the first PersonaType, from the i-th on, whose value is in the
\* uppercased text.
RECURSIVE MatchedPersona(_, _)
MatchedPersona(text_upper, i) ==
    IF i > Len(ValidPersonas) THEN <<>>
    ELSE IF Contains(text_upper, ValidPersonas[i]) THEN <<ValidPersonas[i]>>
    ELSE MatchedPersona(text_upper, i + 1)

\* Lines 505-507: a spoken number above 1 is taken as of the 1-5 scale.
Scaled(diff) ==
    IF FloatLt(RInt(1), diff) THEN RDiv(RSub(diff, RInt(1)), RInt(4)) ELSE diff

\* Lines 499-510: the difficulty said in the text, normalized and clamped to 0-1.
SpokenDifficulty(text) ==
    LET numbers == FirstNumber(text)
    IN  IF numbers = <<>> THEN <<>>
        ELSE <<CHOOSE level \in
                   {RMax(RInt(0), RMin(RInt(1), scaled)) :
                      scaled \in {Scaled(diff) :
                                    diff \in {ParseFloat(numbers[1]).value}}} : TRUE>>

\* Lines 491-512: what the response stores under the field, if anything.
ResponseValue(field, text) ==
    IF field = "persona_type"
    THEN LET persona == MatchedPersona(Upper(text), 1)
         IN  IF persona = <<>> THEN <<>> ELSE <<Str(persona[1])>>
    ELSE IF field = "difficulty"
    THEN LET diff == SpokenDifficulty(text)
         IN  IF diff = <<>> THEN <<>> ELSE <<Number(diff[1])>>
    ELSE <<Str(text)>>

\* What the user says.
SpeechTexts == {"", "elite_interviewer, please", "Level 3", "Job interview"}

\* ResponseValue, computed once for every field and every text said.
ResponseValues ==
    [field \in {"persona_type", "user_goal", "difficulty"}
                \cup {RequiredFields[i] : i \in DOMAIN RequiredFields} |->
        [text \in SpeechTexts |-> ResponseValue(field, text)]]

\* Lines 491-512: the scenario after the response is stored under the field.
StoreResponse(scen, field, text) ==
    LET value == ResponseValues[field][text]
    IN  IF value = <<>> THEN scen ELSE DictSet(scen, field, value[1])

\* Lines 514-525 with line 519 left out: the question stays on the field it
\* was on.
SameQuestion(s, missing) ==
    IF missing # <<>>
    THEN s
    ELSE [s EXCEPT !.collecting_metadata = FALSE,
                   !.current_question_field = None,
                   !.session_started = TRUE]

\* Lines 514-525: the question moves to the first field still missing, or the
\* collection ends.
NextQuestion(s, missing) ==
    IF missing # <<>>
    THEN [s EXCEPT !.current_question_field = Str(missing[1])]
    ELSE [s EXCEPT !.collecting_metadata = FALSE,
                   !.current_question_field = None,
                   !.session_started = TRUE]

\* Lines 486-512: the session with the response stored.
Stored(s, text) ==
    [s EXCEPT !.scenario = StoreResponse(@, s.current_question_field.text, text)]

\* DifficultAIAgent._process_metadata_response(text) on the session s.
ProcessMetadataResponse(s, text) ==
    IF ~Truthy(s.current_question_field) THEN s
    ELSE NextQuestion(Stored(s, text), GetMissingFields(Stored(s, text).scenario))

\* SessionState.add_transcript_entry(role, text); the timestamp is left out.
AddTranscriptEntry(s, role, text) ==
    [s EXCEPT !.transcript = Append(@, [role |-> role, content |-> text])]

\* Cap of len(session.transcript) (unbounded in the code).
MaxTranscript == 4

\* ctx.job.metadata: none, text that is no JSON, or the dict json.loads makes of it.
NoMetadata == [kind |-> "none"]
Malformed == [kind |-> "malformed"]
Parsed(scen) == [kind |-> "dict", scenario |-> scen]

JobMetadata ==
    {NoMetadata, Malformed,
     Parsed(<<>>),
     Parsed([persona |-> Str("ANGRY_CUSTOMER"), goals |-> Str("Get hired"),
             company |-> Str("TechCorp"), role |-> Str("Engineer"),
             stakes |-> Str("Job interview")]),
     Parsed([persona_type |-> Str(""), difficulty |-> None,
             user_goal |-> Str("Get hired"), company |-> Str("TechCorp"),
             role |-> Str("Engineer")]),
     Parsed([persona_type |-> Str("ELITE_INTERVIEWER"), user_goal |-> Str("Get hired"),
             difficulty |-> Number(RInt(3)), company |-> Str("TechCorp"),
             role |-> Str("Engineer"), stakes |-> Str("Job interview")])}

\* What the agent says.
AgentTexts == {"What is at stake?"}

\* Lines 446-449: the greeting, the persona of the second left out.
SetupGreeting == "Hello! I'm DifficultAI. Before we start, I need to set up your scenario."
PersonaGreeting == "Let's begin. Are you ready?"

\* What an awaited call may raise: an Exception, or the cancellation of the job
\* task, which is a BaseException.
Failures == {"RuntimeError", "CancelledError"}
IsException(failure) == failure # "CancelledError"

\* --- OpikTracer (difficultai/observability/opik_tracing.py)

\* A trace the Opik client has made: the calls of its end(), the output it was
\* updated with, its error spans. The client's calls on a trace it has made
\* (update, end, span) are taken to succeed; the making of a trace may fail.
NewTrace == [ended |-> 0, output |-> "None", errors |-> 0]

\* OpikTracer.has_active_trace().
HasActiveTrace(t) == t.enabled /\ t.current # 0

\* OpikTracer.reset_trace().
ResetTrace(t) ==
    IF t.current = 0 THEN t
    ELSE [t EXCEPT !.traces[t.current].ended = @ + 1, !.current = 0]

\* OpikTracer.start_session_trace(...); created is false when client.trace raises.
StartSessionTrace(t, created) ==
    IF ~t.enabled THEN t
    ELSE LET r == ResetTrace(t)
         IN  IF created
             THEN [r EXCEPT !.traces = Append(@, NewTrace), !.current = Len(r.traces) + 1]
             ELSE r

\* OpikTracer.log_error(error, context).
LogError(t) ==
    IF ~t.enabled \/ t.current = 0 THEN t
    ELSE [t EXCEPT !.traces[t.current].errors = @ + 1]

\* end_session_trace without its finally clause: the trace stays in the context.
EndSessionTraceStaysCurrent(t, output) ==
    IF ~t.enabled \/ t.current = 0 THEN t
    ELSE [t EXCEPT !.traces[t.current].output = IF output # "None" THEN output ELSE @,
                   !.traces[t.current].ended = @ + 1]

\* OpikTracer.end_session_trace(output).
EndSessionTrace(t, output) ==
    IF ~t.enabled \/ t.current = 0 THEN t
    ELSE [t EXCEPT !.traces[t.current].output = IF output # "None" THEN output ELSE @,
                   !.traces[t.current].ended = @ + 1,
                   !.current = 0]

\* --- OpikTracer.trace_llm_span / trace_stt_span / trace_tts_span

\* Cap of the spans made on the trace (unbounded in the code).
MaxSpans == 3

SpanKinds == {"llm_call", "stt", "tts"}

\* How the caller's code inside the with block ends: normally, with an
\* Exception, or with a BaseException.
BodyOutcomes == {"none", "ValueError", "CancelledError"}

\* What contextlib raises when the generator yields again after throw().
GeneratorDidNotStop == "RuntimeError: generator didn't stop after throw()"

\* The with block: where it stands, the yield the generator is suspended at,
\* what the body raised, what reached the caller, and the spans made on the
\* trace with the calls of their update() and end().
NoSpan ==
    [state |-> "none", kind |-> "none", at |-> "none", raised |-> "none",
     reached |-> "none", spans |-> <<>>]

\* __enter__ of `with tracer.trace_*_span(...)`: the generator runs to its
\* first yield. Without tracing or trace that is the `yield None` before the
\* return; else the `yield span`, or, when trace.span raises, the `yield None`
\* of the except clause.
EnterSpan(kind, made) ==
    /\ span.state \in {"none", "exited"}
    /\ Len(span.spans) < MaxSpans
    /\ span' = [span EXCEPT
                  !.state = "body",
                  !.kind = kind,
                  !.raised = "none",
                  !.reached = "none",
                  !.at = IF ~HasActiveTrace(tracer) THEN "disabled"
                         ELSE IF made THEN "span" ELSE "except",
                  !.spans = IF HasActiveTrace(tracer) /\ made
                            THEN Append(@, [kind |-> kind, updated |-> 0, ended |-> 0])
                            ELSE @]
    /\ UNCHANGED <<session, entrypoint, tracer, last_validation>>

\* What leaves the with block when the body ended with `thrown` and the
\* generator is suspended at the yield `at`. An exception is thrown into the
\* generator at that yield. At `yield span` the finally clause runs and an
\* Exception is then caught by `except Exception`, whose `yield None` makes
\* the generator yield a second time; a BaseException passes. At the other
\* yields nothing catches it.
Reached(at, thrown) ==
    IF thrown = "none" THEN "none"
    ELSE IF at = "span" /\ IsException(thrown) THEN GeneratorDidNotStop
    ELSE thrown

\* __exit__ of the with block: the body ended with `thrown`; the finally
\* clause, if the generator stands inside it, updates and ends the span.
ExitSpan(thrown) ==
    /\ span.state = "body"
    /\ span' = [span EXCEPT
                  !.state = "exited",
                  !.raised = thrown,
                  !.reached = Reached(span.at, thrown),
                  !.spans = IF span.at = "span"
                            THEN [@ EXCEPT ![Len(@)].updated = @ + 1,
                                           ![Len(@)].ended = @ + 1]
                            ELSE @]
    /\ UNCHANGED <<session, entrypoint, tracer, last_validation>>

\* --- DifficultAIAgent.entrypoint

\* The entrypoint at position pc: the assistant it has, the exception on its way
\* out, opik_output, the trace it started, and how it ended.
EntryPoint(pc) ==
    [pc |-> pc, assistant |-> "none", pending |-> "none", opik_output |-> "None",
     session_trace |-> 0, failed_at |-> "none", result |-> "running"]

\* No job taken: the entrypoint is not entered.
NotStarted == EntryPoint("idle")

\* An awaited call of the try block raises: to the except clause if it is an
\* Exception, else straight to the finally clause.
Raise(failure) ==
    [entrypoint EXCEPT !.pc = IF IsException(failure) THEN "except" ELSE "finally",
                       !.pending = failure,
                       !.failed_at = entrypoint.pc]

\* Lines 255-272: _load_scenario_from_metadata, the first call of the entrypoint.
LoadScenarioFromMetadata(metadata) ==
    /\ entrypoint.pc = "entered"
    /\ LET scen    == IF metadata.kind = "dict" THEN metadata.scenario
                      ELSE IF metadata.kind = "malformed" THEN <<>>
                      ELSE session.scenario
           missing == GetMissingFields(scen)
       IN  session' = IF missing # <<>>
                      THEN [session EXCEPT !.scenario = scen,
                                           !.collecting_metadata = TRUE,
                                           !.current_question_field = Str(missing[1])]
                      ELSE [session EXCEPT !.scenario = scen]
    /\ entrypoint' = [entrypoint EXCEPT !.pc = "connect"]
    /\ UNCHANGED <<tracer, span, last_validation>>

\* Lines 117-122: ctx.connect() and ctx.wait_for_participant(); a failure leaves
\* the entrypoint before any trace is started.
Connect(outcome) ==
    /\ entrypoint.pc = "connect"
    /\ entrypoint' = IF outcome = "ok" THEN [entrypoint EXCEPT !.pc = "joined"]
                     ELSE [entrypoint EXCEPT !.pc = "done", !.failed_at = "connect",
                                             !.result = outcome]
    /\ UNCHANGED <<session, tracer, span, last_validation>>

\* Lines 129-137: the session trace is started if tracing is enabled.
StartTrace(created) ==
    /\ entrypoint.pc = "joined"
    /\ tracer' = StartSessionTrace(tracer, created)
    /\ entrypoint' = [entrypoint EXCEPT !.pc = "realtime",
                                        !.session_trace = tracer'.current]
    /\ UNCHANGED <<session, span, last_validation>>

\* Lines 143-146: _create_realtime_assistant().
CreateRealtimeAssistant(outcome) ==
    /\ entrypoint.pc = "realtime"
    /\ entrypoint' = IF outcome = "ok"
                     THEN [entrypoint EXCEPT !.pc = "start", !.assistant = "realtime"]
                     ELSE IF IsException(outcome)
                     THEN [entrypoint EXCEPT !.pc = "fallback"]
                     ELSE Raise(outcome)
    /\ UNCHANGED <<session, tracer, span, last_validation>>

\* Lines 147-150: _create_fallback_assistant(), in the except clause of the
\* Realtime attempt.
CreateFallbackAssistant(outcome) ==
    /\ entrypoint.pc = "fallback"
    /\ entrypoint' = IF outcome = "ok"
                     THEN [entrypoint EXCEPT !.pc = "start", !.assistant = "fallback"]
                     ELSE Raise(outcome)
    /\ UNCHANGED <<session, tracer, span, last_validation>>

\* Lines 152-161: the handlers, assistant.start() and _send_initial_message().
StartAssistant(outcome) ==
    /\ entrypoint.pc = "start"
    /\ IF outcome = "ok"
       THEN /\ session' = AddTranscriptEntry(session, "assistant",
                             IF session.collecting_metadata
                             THEN SetupGreeting ELSE PersonaGreeting)
            /\ entrypoint' = [entrypoint EXCEPT !.pc = "conversation"]
       ELSE /\ entrypoint' = Raise(outcome)
            /\ UNCHANGED session
    /\ UNCHANGED <<tracer, span, last_validation>>

\* DifficultAIAgent._on_user_speech(text), while the assistant runs.
OnUserSpeech(text) ==
    /\ entrypoint.pc = "conversation"
    /\ Len(session.transcript) < MaxTranscript
    /\ \E heard \in {AddTranscriptEntry(session, "user", text)} :
          session' = IF heard.collecting_metadata
                     THEN ProcessMetadataResponse(heard, text)
                     ELSE heard
    /\ UNCHANGED <<entrypoint, tracer, span, last_validation>>

\* DifficultAIAgent._on_agent_speech(text), while the assistant runs.
OnAgentSpeech(text) ==
    /\ entrypoint.pc = "conversation"
    /\ Len(session.transcript) < MaxTranscript
    /\ session' = AddTranscriptEntry(session, "assistant", text)
    /\ UNCHANGED <<entrypoint, tracer, span, last_validation>>

\* Line 164: assistant.wait_for_completion().
WaitForCompletion(outcome) ==
    /\ entrypoint.pc = "conversation"
    /\ entrypoint' = IF outcome = "ok" THEN [entrypoint EXCEPT !.pc = "scorecard"]
                     ELSE Raise(outcome)
    /\ UNCHANGED <<session, tracer, span, last_validation>>

\* Lines 167-173: _generate_scorecard() and the output for the trace; the
\* scorecard is the evaluator's, whose own list and the file written do not
\* come back into the entrypoint.
GenerateScorecard(outcome) ==
    /\ entrypoint.pc = "scorecard"
    /\ entrypoint' = IF outcome = "ok"
                     THEN [entrypoint EXCEPT !.pc = "finally", !.opik_output = "ok"]
                     ELSE Raise(outcome)
    /\ UNCHANGED <<session, tracer, span, last_validation>>

\* Lines 175-191: the except clause, which ends with raise.
ExceptClause ==
    /\ entrypoint.pc = "except"
    /\ tracer' = IF tracer.enabled THEN LogError(tracer) ELSE tracer
    /\ entrypoint' = [entrypoint EXCEPT
                         !.pc = "finally",
                         !.opik_output = IF tracer.enabled THEN "error" ELSE @]
    /\ UNCHANGED <<session, span, last_validation>>

\* Lines 192-194: the finally clause; then the entrypoint returns, or the
\* pending exception goes on to the caller.
FinallyClause ==
    /\ entrypoint.pc = "finally"
    /\ tracer' = IF tracer.enabled
                 THEN EndSessionTrace(tracer, entrypoint.opik_output) ELSE tracer
    /\ entrypoint' = [entrypoint EXCEPT
                         !.pc = "done",
                         !.result = IF entrypoint.pending = "none" THEN "returned"
                                    ELSE entrypoint.pending]
    /\ UNCHANGED <<session, span, last_validation>>

\* ------------------------------------ the adversary agent (agents/adversary.py)

\* AdversaryAgent is a DifficultAI whose difficulty_level may be any number the
\* scenario gives: the level is an exact rational here, and the steps of
\* _update_difficulty are those of the difficulty controller on rationals.

\* No AdversaryAgent constructed.
NoAdversaryAgent ==
    [constructed |-> FALSE, scenario |-> None, difficulty_level |-> RInt(1),
     vague_response_count |-> 0, deflection_count |-> 0, commitments_made |-> <<>>]

\* The scenarios an AdversaryAgent is given: none, an empty dict, one without
\* difficulty, difficulties 1-5 (ArchitectAgent.design_scenario) and
\* normalized ones (scenario validator).
AdversaryScenarios ==
    {None, <<>>, [persona_type |-> Str("ELITE_INTERVIEWER")]}
    \cup {[persona_type |-> Str("ELITE_INTERVIEWER"), difficulty |-> Number(RInt(d))] :
             d \in 1..5}
    \cup {[persona_type |-> Str("ANGRY_CUSTOMER"), difficulty |-> Number(r)] :
             r \in {RInt(0), Rat(1, 2), Rat(3, 5), RInt(1)}}

\* `not self.scenario` of line 55: no scenario, or an empty dict.
ScenarioUnset(scen) == scen = None \/ scen = <<>>

\* AdversaryAgent._apply_scenario_context() on the agent a.
ApplyScenarioContext(a) ==
    IF ScenarioUnset(a.scenario) THEN a
    ELSE [a EXCEPT !.difficulty_level =
                       Get(a.scenario, "difficulty", Number(RInt(1))).value]

\* Lines 136-140 of difficult_ai.py on the agent a.
AdversaryVagueStep(a, analysis) ==
    IF analysis.is_vague
    THEN LET vc == a.vague_response_count + 1
         IN  [a EXCEPT !.vague_response_count = vc,
                       !.difficulty_level =
                           IF vc >= 2 /\ RLt(a.difficulty_level, RInt(5))
                           THEN RAdd(a.difficulty_level, RInt(1)) ELSE @]
    ELSE a

\* Lines 142-145 of difficult_ai.py on the agent a.
AdversaryDeflectStep(a, analysis) ==
    IF analysis.is_deflecting
    THEN LET dc == a.deflection_count + 1
         IN  [a EXCEPT !.deflection_count = dc,
                       !.difficulty_level =
                           IF dc >= 2 /\ RLt(a.difficulty_level, RInt(5))
                           THEN RAdd(a.difficulty_level, RInt(1)) ELSE @]
    ELSE a

\* Lines 148-151 of difficult_ai.py on the agent a.
AdversaryConcreteStep(a, analysis) ==
    IF analysis.is_concrete /\ ~analysis.is_vague /\ RLt(RInt(1), a.difficulty_level)
    THEN IF Len(a.commitments_made) >= 2
         THEN [a EXCEPT !.difficulty_level = RMax(RInt(1), RSub(@, RInt(1)))]
         ELSE a
    ELSE a

\* AdversaryAgent(scenario=scenario): DifficultAI.__init__, then the scenario
\* context.
ConstructAdversary(scen) ==
    /\ ~adversary.constructed
    /\ adversary' = ApplyScenarioContext(
                        [NoAdversaryAgent EXCEPT !.constructed = TRUE,
                                                 !.scenario = scen])

\* AdversaryAgent.set_scenario(scenario).
SetScenario(scen) ==
    /\ adversary.constructed
    /\ adversary' = ApplyScenarioContext([adversary EXCEPT !.scenario = scen])

\* The inherited _update_difficulty(analysis).
AdversaryUpdateDifficulty(analysis) ==
    /\ adversary.constructed
    /\ analysis.is_vague => adversary.vague_response_count < MaxCount
    /\ analysis.is_deflecting => adversary.deflection_count < MaxCount
    /\ adversary' = AdversaryConcreteStep(
                        AdversaryDeflectStep(AdversaryVagueStep(adversary, analysis),
                                             analysis),
                        analysis)

\* A commitment recorded in the adversary's commitments_made.
AdversaryRecordCommitment(c) ==
    /\ adversary.constructed
    /\ Len(adversary.commitments_made) < MaxCommitments
    /\ adversary' = [adversary EXCEPT !.commitments_made = Append(@, c)]

\* The inherited reset(); the scenario stays.
AdversaryReset ==
    /\ adversary.constructed
    /\ adversary' = [adversary EXCEPT !.difficulty_level = RInt(1),
                                      !.vague_response_count = 0,
                                      !.deflection_count = 0,
                                      !.commitments_made = <<>>]

\* ---------------------------------------------------------- specifications

\* No LiveKit job taken, no tracing, no call of the validator.
NoLiveKit ==
    /\ session = NewSession
    /\ entrypoint = NotStarted
    /\ tracer = TracerOff
    /\ span = NoSpan
    /\ last_validation = NoValidation

\* No AdversaryAgent constructed.
NoAdversary == adversary = NoAdversaryAgent

\* The difficulty controller, no evaluation made.
\* Lines 39 and 44: no message yet, no interruption.
InitChat ==
    /\ conversation_history = <<>>
    /\ interrupted = FALSE
    /\ last_chat = NoChat

\* No evaluation made and none to come.
NoEvaluator ==
    /\ metrics = <<>>
    /\ scenario = NoScenario
    /\ evaluations = NoEvaluations
    /\ last_evaluation = NoCall
    /\ raised = "none"

Init ==
    /\ InitAgent
    /\ InitChat
    /\ metrics = <<>>
    /\ scenario = NoScenario
    /\ evaluations = NoEvaluations
    /\ last_evaluation = NoCall
    /\ raised = "none"
    /\ NoLiveKit
    /\ NoAdversary

Next ==
    \/ /\ \E analysis \in Analyses : UpdateDifficulty(analysis)
       /\ UNCHANGED <<chat_vars, eval_vars, livekit_vars, adversary>>
    \/ /\ \E c \in CommitmentTexts : RecordCommitment(c)
       /\ UNCHANGED <<chat_vars, eval_vars, livekit_vars, adversary>>
    \/ /\ Reset
       /\ UNCHANGED <<eval_vars, livekit_vars, adversary>>

Spec == Init /\ [][Next]_vars

\* The agent in conversation: chat calls, direct calls of the two text analyses,
\* and resets.
InitConversation ==
    /\ InitAgent
    /\ InitChat
    /\ NoEvaluator
    /\ NoLiveKit
    /\ NoAdversary

NextConversation ==
    \/ /\ \E user_message \in UserMessages, outcome \in Outcomes :
             Chat(user_message, outcome)
       /\ UNCHANGED <<eval_vars, livekit_vars, adversary>>
    \/ /\ \E user_message \in Texts : AnalyzeCall(user_message)
       /\ UNCHANGED <<eval_vars, livekit_vars, adversary>>
    \/ /\ \E user_message \in Texts : ExtractCall(user_message)
       /\ UNCHANGED <<eval_vars, livekit_vars, adversary>>
    \/ /\ Reset
       /\ UNCHANGED <<eval_vars, livekit_vars, adversary>>

SpecConversation == InitConversation /\ [][NextConversation]_vars

\* The evaluator on one session's metrics record.
InitEval ==
    /\ InitAgent
    /\ InitChat
    /\ InitEvaluator
    /\ NoLiveKit
    /\ NoAdversary

NextEval ==
    /\ \E e \in Evaluators : EvaluateConversation(e)
    /\ UNCHANGED <<agent_vars, chat_vars, livekit_vars, adversary>>

SpecEval == InitEval /\ [][NextEval]_vars

\* The sessions an evaluator is handed one after the other.
SessionRecords == {<<>>, SessionOfFive, SessionOfSix, Metrics(3, 2, 0, 3, 20, 20)}

\* The caller's next session: the arguments of the next evaluate_conversation call.
NextSession(m, scen) ==
    /\ <<m, scen>> # <<metrics, scenario>>
    /\ metrics' = m
    /\ scenario' = scen
    /\ UNCHANGED <<evaluations, last_evaluation, raised>>

\* The evaluators over several sessions.
InitSessions ==
    /\ InitAgent
    /\ InitChat
    /\ metrics \in SessionRecords
    /\ scenario \in Scenarios
    /\ evaluations = NoEvaluations
    /\ last_evaluation = NoCall
    /\ raised = "none"
    /\ NoLiveKit
    /\ NoAdversary

NextSessions ==
    \/ /\ \E e \in Evaluators : EvaluateConversation(e)
       /\ UNCHANGED <<agent_vars, chat_vars, livekit_vars, adversary>>
    \/ /\ \E m \in SessionRecords, scen \in Scenarios : NextSession(m, scen)
       /\ UNCHANGED <<agent_vars, chat_vars, livekit_vars, adversary>>

SpecSessions == InitSessions /\ [][NextSessions]_vars

\* The scenario validator on one scenario dict.
InitValidator ==
    /\ InitAgent
    /\ InitChat
    /\ NoEvaluator
    /\ session \in {[NewSession EXCEPT !.scenario = s] : s \in ScenarioDicts}
    /\ entrypoint = NotStarted
    /\ tracer = TracerOff
    /\ span = NoSpan
    /\ last_validation = NoValidation
    /\ NoAdversary

NextValidator ==
    \/ /\ ValidateCall
       /\ UNCHANGED <<agent_vars, chat_vars, eval_vars, adversary>>
    \/ /\ MissingCall
       /\ UNCHANGED <<agent_vars, chat_vars, eval_vars, adversary>>
    \/ /\ CompleteCall
       /\ UNCHANGED <<agent_vars, chat_vars, eval_vars, adversary>>

SpecValidator == InitValidator /\ [][NextValidator]_vars

\* One job of the LiveKit agent: the entrypoint from its first line to its
\* return, the speech events during the conversation.
InitLiveKit ==
    /\ InitAgent
    /\ InitChat
    /\ NoEvaluator
    /\ session = NewSession
    /\ entrypoint = EntryPoint("entered")
    /\ tracer \in {TracerOff,
                   [enabled |-> TRUE, current |-> 0, traces |-> <<>>],
                   [enabled |-> TRUE, current |-> 1, traces |-> <<NewTrace>>]}
    /\ span = NoSpan
    /\ last_validation = NoValidation
    /\ NoAdversary

NextLiveKit ==
    \/ /\ \E metadata \in JobMetadata : LoadScenarioFromMetadata(metadata)
       /\ UNCHANGED <<agent_vars, chat_vars, eval_vars, adversary>>
    \/ /\ \E outcome \in {"ok"} \cup Failures : Connect(outcome)
       /\ UNCHANGED <<agent_vars, chat_vars, eval_vars, adversary>>
    \/ /\ \E created \in BOOL : StartTrace(created)
       /\ UNCHANGED <<agent_vars, chat_vars, eval_vars, adversary>>
    \/ /\ \E outcome \in {"ok"} \cup Failures : CreateRealtimeAssistant(outcome)
       /\ UNCHANGED <<agent_vars, chat_vars, eval_vars, adversary>>
    \/ /\ \E outcome \in {"ok"} \cup Failures : CreateFallbackAssistant(outcome)
       /\ UNCHANGED <<agent_vars, chat_vars, eval_vars, adversary>>
    \/ /\ \E outcome \in {"ok"} \cup Failures : StartAssistant(outcome)
       /\ UNCHANGED <<agent_vars, chat_vars, eval_vars, adversary>>
    \/ /\ \E text \in SpeechTexts : OnUserSpeech(text)
       /\ UNCHANGED <<agent_vars, chat_vars, eval_vars, adversary>>
    \/ /\ \E text \in AgentTexts : OnAgentSpeech(text)
       /\ UNCHANGED <<agent_vars, chat_vars, eval_vars, adversary>>
    \/ /\ \E outcome \in {"ok"} \cup Failures : WaitForCompletion(outcome)
       /\ UNCHANGED <<agent_vars, chat_vars, eval_vars, adversary>>
    \/ /\ \E outcome \in {"ok"} \cup Failures : GenerateScorecard(outcome)
       /\ UNCHANGED <<agent_vars, chat_vars, eval_vars, adversary>>
    \/ /\ ExceptClause
       /\ UNCHANGED <<agent_vars, chat_vars, eval_vars, adversary>>
    \/ /\ FinallyClause
       /\ UNCHANGED <<agent_vars, chat_vars, eval_vars, adversary>>

SpecLiveKit == InitLiveKit /\ [][NextLiveKit]_vars

\* Blocks under trace_llm_span, trace_stt_span and trace_tts_span, one after
\* the other, with tracing disabled, with no trace in the context, or with one.
InitSpans ==
    /\ InitAgent
    /\ InitChat
    /\ NoEvaluator
    /\ session = NewSession
    /\ entrypoint = NotStarted
    /\ tracer \in {TracerOff,
                   [enabled |-> TRUE, current |-> 0, traces |-> <<>>],
                   [enabled |-> TRUE, current |-> 1, traces |-> <<NewTrace>>]}
    /\ span = NoSpan
    /\ last_validation = NoValidation
    /\ NoAdversary

NextSpans ==
    \/ /\ \E kind \in SpanKinds, made \in BOOL : EnterSpan(kind, made)
       /\ UNCHANGED <<agent_vars, chat_vars, eval_vars, adversary>>
    \/ /\ \E thrown \in BodyOutcomes : ExitSpan(thrown)
       /\ UNCHANGED <<agent_vars, chat_vars, eval_vars, adversary>>

SpecSpans == InitSpans /\ [][NextSpans]_vars

\* An AdversaryAgent: constructed with a scenario, given scenarios, updated.
InitAdversary ==
    /\ InitAgent
    /\ InitChat
    /\ NoEvaluator
    /\ NoLiveKit
    /\ NoAdversary

NextAdversary ==
    \/ /\ \E scen \in AdversaryScenarios : ConstructAdversary(scen)
       /\ UNCHANGED <<agent_vars, chat_vars, eval_vars, livekit_vars>>
    \/ /\ \E scen \in AdversaryScenarios : SetScenario(scen)
       /\ UNCHANGED <<agent_vars, chat_vars, eval_vars, livekit_vars>>
    \/ /\ \E analysis \in Analyses : AdversaryUpdateDifficulty(analysis)
       /\ UNCHANGED <<agent_vars, chat_vars, eval_vars, livekit_vars>>
    \/ /\ \E c \in CommitmentTexts : AdversaryRecordCommitment(c)
       /\ UNCHANGED <<agent_vars, chat_vars, eval_vars, livekit_vars>>
    \/ /\ AdversaryReset
       /\ UNCHANGED <<agent_vars, chat_vars, eval_vars, livekit_vars>>

SpecAdversary == InitAdversary /\ [][NextAdversary]_vars

\* ------------------------------------------------ the difficulty controller

\* The state is the one an _update_difficulty call has just left.
AfterUpdate == last_call.op = "update"

FreshState == [level |-> 1, vague |-> 0, deflection |-> 0]

\* C1: after any sequence of _update_difficulty calls, commitments recorded and
\* resets, difficulty_level is an integer with 1 <= difficulty_level <= 5.
C1_LevelInRange == difficulty_level \in 1..5

\* C1's case: an update on a vague and deflecting utterance at level 5, both
\* counters past 2.
C1_Witness ==
    /\ AfterUpdate
    /\ last_call.before.level = 5
    /\ last_call.analysis.is_vague /\ last_call.analysis.is_deflecting
    /\ vague_response_count >= 2 /\ deflection_count >= 2
    /\ difficulty_level = 5

\* C2: from the fresh state the first vague, non-deflecting utterance leaves the
\* level at 1 and the one after it raises it to 2 with vague_response_count = 2;
\* the vague step raises the level only when the count it has just incremented is
\* at least 2 and the level is below 5, and then by 1.
C2_VagueThreshold ==
    AfterUpdate =>
        LET b  == last_call.before
            a  == last_call.analysis
            av == last_call.after_vague
        IN  /\ (b = FreshState /\ a.is_vague /\ ~a.is_deflecting)
                  => difficulty_level = 1 /\ vague_response_count = 1
            /\ (b = [FreshState EXCEPT !.vague = 1] /\ a.is_vague /\ ~a.is_deflecting)
                  => difficulty_level = 2 /\ vague_response_count = 2
            /\ av.level # b.level
                  => /\ a.is_vague
                     /\ av.vague = b.vague + 1
                     /\ av.vague >= 2
                     /\ b.level < 5
                     /\ av.level = b.level + 1

\* C2's case: the second vague utterance after a fresh start.
C2_Witness ==
    /\ AfterUpdate
    /\ last_call.before = [FreshState EXCEPT !.vague = 1]
    /\ last_call.analysis.is_vague /\ ~last_call.analysis.is_deflecting
    /\ difficulty_level = 2
    /\ vague_response_count = 2

\* C3: one _update_difficulty call raises the level by at most 2; on a vague and
\* deflecting utterance with both counters at least 2 after their increments it
\* raises it by exactly 2 from a level of at most 3 and by exactly 1 from level 4.
C3_RaiseAtMostTwo ==
    AfterUpdate =>
        LET b == last_call.before
            a == last_call.analysis
        IN  /\ difficulty_level - b.level <= 2
            /\ (a.is_vague /\ a.is_deflecting
                   /\ vague_response_count >= 2 /\ deflection_count >= 2)
                  => /\ b.level <= 3 => difficulty_level = b.level + 2
                     /\ b.level = 4 => difficulty_level = b.level + 1

\* C3's case: a call that raised the level by 2.
C3_Witness ==
    /\ AfterUpdate
    /\ last_call.analysis.is_vague /\ last_call.analysis.is_deflecting
    /\ vague_response_count >= 2 /\ deflection_count >= 2
    /\ last_call.before.level <= 3
    /\ difficulty_level = last_call.before.level + 2

\* C3's other case: the same call from level 4.
C3_WitnessFromFour ==
    /\ AfterUpdate
    /\ last_call.analysis.is_vague /\ last_call.analysis.is_deflecting
    /\ vague_response_count >= 2 /\ deflection_count >= 2
    /\ last_call.before.level = 4
    /\ difficulty_level = 5

\* The reward step's condition, on the level the vague and deflection steps left.
RewardDue ==
    /\ last_call.analysis.is_concrete
    /\ ~last_call.analysis.is_vague
    /\ last_call.after_deflect.level > 1
    /\ last_call.commitments >= 2

\* C4: a call lowers the level only if the utterance is concrete and not vague,
\* the level after the vague and deflection steps is above 1 and at least 2
\* commitments are recorded; it then lowers that level by exactly 1, never below
\* 1; in every other case the level is the one those two steps produced.
C4_LowerOnlyWhenRewardDue ==
    AfterUpdate =>
        LET ad == last_call.after_deflect.level
        IN  /\ difficulty_level < ad
                  => RewardDue /\ difficulty_level = ad - 1 /\ difficulty_level >= 1
            /\ difficulty_level < last_call.before.level => RewardDue
            /\ ~RewardDue => difficulty_level = ad

\* C4's case: a call that lowered the level.
C4_Witness ==
    /\ AfterUpdate
    /\ RewardDue
    /\ difficulty_level = last_call.after_deflect.level - 1
    /\ difficulty_level < last_call.before.level

\* ------------------------------------------------------------ the scorecard

\* The evaluation records of all evaluators.
AllEvaluations ==
    UNION {{evaluations[e][i] : i \in DOMAIN evaluations[e]} : e \in Evaluators}

ZeroExchanges(m) == "total_exchanges" \in DOMAIN m /\ m["total_exchanges"] = 0

\* C6: with total_exchanges = 0, clarity = confidence = composure = 10 and
\* commitment = 1 whatever the counts, and the call raises no ZeroDivisionError.
C6_ZeroExchanges ==
    /\ ZeroExchanges(metrics) => raised = "none"
    /\ \A ev \in AllEvaluations :
          ZeroExchanges(ev.metrics)
            => /\ REq(ev.scores.clarity, RInt(10))
               /\ REq(ev.scores.confidence, RInt(10))
               /\ REq(ev.scores.composure, RInt(10))
               /\ REq(ev.scores.commitment, RInt(1))

\* C6's case: an evaluation of zero exchanges with all three counts positive.
C6_Witness ==
    \E ev \in AllEvaluations :
        /\ ZeroExchanges(ev.metrics)
        /\ Get(ev.metrics, "vague_response_count", 0) > 0
        /\ Get(ev.metrics, "deflection_count", 0) > 0
        /\ Get(ev.metrics, "commitments_made", 0) > 0
        /\ REq(ev.scores.commitment, RInt(1))

C7_WitnessTwoEvaluators ==
    /\ \A e \in Evaluators : Len(evaluations[e]) = 1
    /\ \E ev \in AllEvaluations : ev.feedback.key_moments # <<FallbackMoment>>

\* The number of threshold rules that fire on the scores.
RulesFired(scores) == Len(CoachingCandidates(scores))

\* C8: every evaluation has exactly 3 coaching points; when fewer than 3 rules
\* fire, the positions after the fired ones hold the filler message.
C8_ThreeCoachingPoints ==
    \A ev \in AllEvaluations :
        LET points == ev.feedback.coaching_points
            fired  == RulesFired(ev.scores)
        IN  /\ Len(points) = 3
            /\ \A i \in 1..3 : (i > fired) <=> (points[i] = FillerText)

\* C8's case: no rule fires and all three points are the filler.
C8_Witness ==
    \E ev \in AllEvaluations :
        /\ RulesFired(ev.scores) = 0
        /\ ev.feedback.coaching_points = <<FillerText, FillerText, FillerText>>

\* C8's other cases: exactly one rule, and more than three rules.
C8_WitnessOneRule ==
    \E ev \in AllEvaluations :
        RulesFired(ev.scores) = 1 /\ ev.feedback.coaching_points[2] = FillerText

C8_WitnessManyRules ==
    \E ev \in AllEvaluations : RulesFired(ev.scores) > 3

\* The candidates that fired on the scores, as a set.
FiredCandidates(scores) ==
    {CoachingCandidates(scores)[i] : i \in DOMAIN CoachingCandidates(scores)}

\* The candidate a coaching point comes from.
CandidateOf(scores, text) == CHOOSE c \in FiredCandidates(scores) : c.text = text

\* C9: in the coaching points every weakness precedes every strength, within the
\* weaknesses and within the strengths the points are in ascending order of their
\* dimension's score, and of more than 3 weaknesses the 3 kept are the 3 lowest.
C9_AscendingScores ==
    \A ev \in AllEvaluations :
        LET points == ev.feedback.coaching_points
            kept   == {i \in 1..3 : points[i] # FillerText}
            cand(i) == CandidateOf(ev.scores, points[i])
            weak   == {c \in FiredCandidates(ev.scores) : ~c.strength}
        IN  /\ \A i \in kept, j \in kept :
                  i < j => /\ ~(cand(i).strength /\ ~cand(j).strength)
                           /\ cand(i).strength = cand(j).strength
                                => RLe(ev.scores[cand(i).dim], ev.scores[cand(j).dim])
            /\ Cardinality(weak) > 3
                  => \A i \in kept : \A c \in weak :
                        c.text \in {points[k] : k \in kept}
                          \/ RLe(ev.scores[cand(i).dim], ev.scores[c.dim])

\* The part of C9 the sort does keep: no strength precedes a weakness.
C9_WeaknessesFirst ==
    \A ev \in AllEvaluations :
        LET points == ev.feedback.coaching_points
            kept   == {i \in 1..3 : points[i] # FillerText}
            cand(i) == CandidateOf(ev.scores, points[i])
        IN  \A i \in kept, j \in kept :
               i < j => ~(cand(i).strength /\ ~cand(j).strength)

\* The positions of the line of this kind in the key moments.
LinesOf(moments, kind) == {i \in DOMAIN moments : moments[i].kind = kind}

\* C10: key_moments holds, in this order, one line for each of
\* vague_response_count, deflection_count and commitments_made that is greater
\* than 0, with that count; when all three are zero or missing it is the single
\* fallback line; it is never empty and never longer than 3.
C10_KeyMoments ==
    \A ev \in AllEvaluations :
        LET moments == ev.feedback.key_moments
            m       == ev.metrics
            line(kind, field) ==
                /\ Cardinality(LinesOf(moments, kind)) =
                      IF Get(m, field, 0) > 0 THEN 1 ELSE 0
                /\ \A i \in LinesOf(moments, kind) : moments[i].count = m[field]
            none    == /\ Get(m, "vague_response_count", 0) = 0
                       /\ Get(m, "deflection_count", 0) = 0
                       /\ Get(m, "commitments_made", 0) = 0
        IN  /\ line(KindVague, "vague_response_count")
            /\ line(KindDeflection, "deflection_count")
            /\ line(KindCommitments, "commitments_made")
            /\ \A i \in LinesOf(moments, KindVague) :
                  \A j \in LinesOf(moments, KindDeflection) \cup
                            LinesOf(moments, KindCommitments) : i < j
            /\ \A i \in LinesOf(moments, KindDeflection) :
                  \A j \in LinesOf(moments, KindCommitments) : i < j
            /\ none <=> moments = <<FallbackMoment>>
            /\ ~none => \A i \in DOMAIN moments : moments[i] # FallbackMoment
            /\ Len(moments) >= 1 /\ Len(moments) <= 3

\* C10's case: the three counts missing from the record, and the fallback line.
C10_Witness ==
    \E ev \in AllEvaluations :
        /\ DOMAIN ev.metrics \cap {"vague_response_count", "deflection_count",
                                    "commitments_made"} = {}
        /\ ev.feedback.key_moments = <<FallbackMoment>>

\* C10's other case: all three counts positive, three lines.
C10_WitnessThreeLines ==
    \E ev \in AllEvaluations :
        /\ Len(ev.feedback.key_moments) = 3
        /\ ev.feedback.key_moments[1].kind = KindVague
        /\ ev.feedback.key_moments[3].kind = KindCommitments

\* ------------------------------------------------- the scorecard's arithmetic

\* An evaluate_conversation call has returned.
Called == last_evaluation.evaluator \in Evaluators

\* The metrics of the last call, its internal 0-100 scores and its reported scores.
CalledMetrics == last_evaluation.returned[1].metrics
CalledInternal == last_evaluation.internal
CalledScores == last_evaluation.returned[1].scores

\* The fields are all in the metrics record m.
Has(m, fields) == fields \subseteq DOMAIN m

\* n/d, d > 0, clamped to [0, 100].
ClampedTo100(n, d) ==
    IF n <= 0 THEN RInt(0) ELSE IF n >= 100 * d THEN RInt(100) ELSE Rat(n, d)

\* a and b are the same number, and a number at all.
Same(a, b) == a.den > 0 /\ b.den > 0 /\ REq(a, b)

\* C11: for total_exchanges > 0 the internal clarity score is
\* 100 - 100 * vague_response_count / total_exchanges clamped to [0, 100] and the
\* internal confidence score the same of deflection_count; 3 vague responses and
\* no deflection in 6 exchanges give clarity 50 and confidence 100.
C11_ClarityConfidence ==
    Called =>
        LET m == CalledMetrics
        IN  /\ (Has(m, {"vague_response_count", "total_exchanges"})
                   /\ m["total_exchanges"] > 0)
                  => Same(CalledInternal.clarity,
                          ClampedTo100(100 * m["total_exchanges"]
                                         - 100 * m["vague_response_count"],
                                       m["total_exchanges"]))
            /\ (Has(m, {"deflection_count", "total_exchanges"})
                   /\ m["total_exchanges"] > 0)
                  => Same(CalledInternal.confidence,
                          ClampedTo100(100 * m["total_exchanges"]
                                         - 100 * m["deflection_count"],
                                       m["total_exchanges"]))
            /\ m = SessionOfSix
                  => /\ CalledInternal.clarity = RInt(50)
                     /\ CalledInternal.confidence = RInt(100)

\* C11's case: the session of 6 exchanges, 3 of them vague.
C11_Witness ==
    /\ Called
    /\ CalledMetrics = SessionOfSix
    /\ CalledInternal.clarity = RInt(50)
    /\ CalledInternal.confidence = RInt(100)

\* C11's other case: more deflections than exchanges, the score clamped to 0.
C11_WitnessClamped ==
    /\ Called
    /\ Has(CalledMetrics, {"deflection_count", "vague_response_count", "total_exchanges"})
    /\ CalledMetrics["total_exchanges"] > 0
    /\ CalledMetrics["deflection_count"] > CalledMetrics["total_exchanges"]
    /\ CalledMetrics["vague_response_count"] = 0
    /\ CalledInternal.confidence = RInt(0)
    /\ CalledInternal.clarity = RInt(100)

\* C12: for total_exchanges > 0 the internal commitment score is
\* 300 * commitments_made / total_exchanges clamped to [0, 100]; it is 100 exactly
\* when there is at least 1 commitment per 3 exchanges; 3 commitments in 5
\* exchanges give 100 and 1 commitment in 6 exchanges gives 50.
C12_CommitmentScore ==
    Called =>
        LET m == CalledMetrics
        IN  /\ (Has(m, {"commitments_made", "total_exchanges"})
                   /\ m["total_exchanges"] > 0)
                  => /\ Same(CalledInternal.commitment,
                             ClampedTo100(300 * m["commitments_made"],
                                          m["total_exchanges"]))
                     /\ CalledInternal.commitment = RInt(100)
                           <=> 3 * m["commitments_made"] >= m["total_exchanges"]
            /\ m = SessionOfFive => CalledInternal.commitment = RInt(100)
            /\ m = SessionOfSix => CalledInternal.commitment = RInt(50)

\* C12's case: 1 commitment in 6 exchanges.
C12_Witness ==
    /\ Called
    /\ CalledMetrics = SessionOfSix
    /\ CalledInternal.commitment = RInt(50)

\* C12's other cases: exactly 1 commitment per 3 exchanges, and 3 in 5.
C12_WitnessAtTarget ==
    /\ Called
    /\ Has(CalledMetrics, {"commitments_made", "total_exchanges"})
    /\ CalledMetrics["commitments_made"] = 1
    /\ CalledMetrics["total_exchanges"] = 3
    /\ CalledInternal.commitment = RInt(100)

C12_WitnessSessionOfFive ==
    Called /\ CalledMetrics = SessionOfFive /\ CalledInternal.commitment = RInt(100)

\* C13: the internal adaptability score is 100 when
\* current_difficulty - scenario_difficulty <= 0 and otherwise
\* 100 - 20 * (current_difficulty - scenario_difficulty) clamped to [0, 100];
\* current 0.6 against scenario 0.5 gives 98, current 2 against scenario 2 gives 100.
C13_AdaptabilityScore ==
    Called =>
        LET m == CalledMetrics
        IN  /\ Has(m, {"current_difficulty", "scenario_difficulty"})
                  => LET delta == m["current_difficulty"] - m["scenario_difficulty"]
                     IN  Same(CalledInternal.adaptability,
                              IF delta <= 0 THEN RInt(100)
                              ELSE ClampedTo100(1000 - 20 * delta, 10))
            /\ m = SessionOfSix => CalledInternal.adaptability = RInt(98)
            /\ m = SessionOfFive => CalledInternal.adaptability = RInt(100)

\* C13's case: current 0.6 against scenario 0.5.
C13_Witness ==
    /\ Called
    /\ CalledMetrics = SessionOfSix
    /\ CalledInternal.adaptability = RInt(98)

\* C13's other cases: a difficulty below the scenario's, and one well above it.
C13_WitnessBelow ==
    /\ Called
    /\ Has(CalledMetrics, {"current_difficulty", "scenario_difficulty"})
    /\ CalledMetrics["current_difficulty"] < CalledMetrics["scenario_difficulty"]
    /\ CalledInternal.adaptability = RInt(100)

C13_WitnessAbove ==
    /\ Called
    /\ Has(CalledMetrics, {"current_difficulty", "scenario_difficulty"})
    /\ CalledMetrics["current_difficulty"] = 50
    /\ CalledMetrics["scenario_difficulty"] = 5
    /\ CalledInternal.adaptability = RInt(10)

\* 1 + 9 * s / 100 clamped to [1, 10].
Reported(s) ==
    LET r == Rat(100 * s.den + 9 * s.num, 100 * s.den)
    IN  IF RLt(r, RInt(1)) THEN RInt(1) ELSE IF RLt(RInt(10), r) THEN RInt(10) ELSE r

\* 0.25 clarity + 0.20 confidence + 0.25 commitment + 0.15 adaptability
\* + 0.15 composure, of the scores i.
Blend(i) ==
    RDiv(RAdd(RAdd(RAdd(RAdd(RMul(RInt(25), i.clarity), RMul(RInt(20), i.confidence)),
                        RMul(RInt(25), i.commitment)),
                   RMul(RInt(15), i.adaptability)),
              RMul(RInt(15), i.composure)),
         RInt(100))

C14_WitnessLowest ==
    Called /\ CalledInternal.commitment = RInt(0) /\ CalledScores.commitment = RInt(1)

\* The metrics record m with each missing count as count, a missing
\* total_exchanges as exchanges and a missing difficulty as difficulty.
FilledWith(m, count, exchanges, difficulty) ==
    Metrics(IF "vague_response_count" \in DOMAIN m THEN m["vague_response_count"] ELSE count,
            IF "deflection_count" \in DOMAIN m THEN m["deflection_count"] ELSE count,
            IF "commitments_made" \in DOMAIN m THEN m["commitments_made"] ELSE count,
            IF "total_exchanges" \in DOMAIN m THEN m["total_exchanges"] ELSE exchanges,
            IF "current_difficulty" \in DOMAIN m THEN m["current_difficulty"] ELSE difficulty,
            IF "scenario_difficulty" \in DOMAIN m THEN m["scenario_difficulty"] ELSE difficulty)

\* The five formulas on a record f with all six fields, and their blend.
FormulaScores(f) ==
    LET te    == f.total_exchanges
        delta == f.current_difficulty - f.scenario_difficulty
        five  ==
          [clarity      |-> IF te = 0 THEN RInt(100)
                            ELSE ClampedTo100(100 * te - 100 * f.vague_response_count, te),
           confidence   |-> IF te = 0 THEN RInt(100)
                            ELSE ClampedTo100(100 * te - 100 * f.deflection_count, te),
           commitment   |-> IF te = 0 THEN RInt(0)
                            ELSE ClampedTo100(300 * f.commitments_made, te),
           adaptability |-> IF delta <= 0 THEN RInt(100)
                            ELSE ClampedTo100(1000 - 20 * delta, 10),
           composure    |-> IF te = 0 THEN RInt(100)
                            ELSE ClampedTo100(100 * te - 50 * (f.vague_response_count
                                                                 + f.deflection_count), te)]
    IN  [dim \in Dimensions |-> IF dim = "effectiveness" THEN Blend(five) ELSE five[dim]]

\* The last call scored its record as the formulas score the record f.
ScoredAs(f) ==
    \A dim \in Dimensions :
        /\ Same(CalledInternal[dim], FormulaScores(f)[dim])
        /\ Same(CalledScores[dim], Reported(FormulaScores(f)[dim]))

\* C15 as stated: evaluate_conversation never raises for a metrics record from
\* which any subset of the six fields is missing, and scores it as if each missing
\* field were 0: a missing total_exchanges as 0 exchanges, a missing difficulty as
\* difficulty 0.
C15_MissingAsZero ==
    /\ raised = "none"
    /\ Called => ScoredAs(FilledWith(CalledMetrics, 0, 0, 0))

\* C15, amended: evaluate_conversation never raises for a metrics record from
\* which any subset of the six fields is missing, and scores it as if each missing
\* count were 0, a missing total_exchanges 1 and a missing difficulty 1.
C15_MissingAsDefault ==
    /\ raised = "none"
    /\ Called => ScoredAs(FilledWith(CalledMetrics, 0, 1, 10))

\* C15's case: a record without total_exchanges and without scenario_difficulty,
\* scored as 1 exchange at scenario difficulty 1.
C15_Witness ==
    /\ Called
    /\ raised = "none"
    /\ DOMAIN CalledMetrics = {"vague_response_count", "commitments_made",
                                "current_difficulty"}
    /\ CalledMetrics["vague_response_count"] = 2
    /\ CalledMetrics["commitments_made"] = 0
    /\ CalledMetrics["current_difficulty"] = 20
    /\ CalledScores.clarity = RInt(1)
    /\ CalledInternal.adaptability = RInt(80)

\* C15's other case: the empty record.
C15_WitnessEmpty ==
    /\ Called
    /\ CalledMetrics = <<>>
    /\ CalledScores.clarity = RInt(10)
    /\ CalledScores.commitment = RInt(1)
    /\ CalledScores.adaptability = RInt(10)

\* C16: the scores of every evaluation have an 'overall' entry and are on the
\* 0-100 scale: for the session of 5 exchanges with no vague response, no
\* deflection and 3 commitments at difficulty 2 against 2, clarity is above 80,
\* confidence above 80 and overall above 70.
C16_OverallOnScaleOf100 ==
    \A ev \in AllEvaluations :
        /\ "overall" \in DOMAIN ev.scores
        /\ ev.metrics = SessionOfFive
              => /\ RLt(RInt(80), ev.scores["clarity"])
                 /\ RLt(RInt(80), ev.scores["confidence"])
                 /\ RLt(RInt(70), ev.scores["overall"])

\* The part of C16 on the scale alone: that session's clarity and confidence are
\* above 80.
C16_ScaleOf100 ==
    \A ev \in AllEvaluations :
        ev.metrics = SessionOfFive
          => /\ RLt(RInt(80), ev.scores["clarity"])
             /\ RLt(RInt(80), ev.scores["confidence"])

\* What the code returns for that session: six scores of 10, none named overall.
C16_SessionOfFiveScores ==
    \A ev \in AllEvaluations :
        ev.metrics = SessionOfFive
          => ev.scores = [dim \in Dimensions |-> RInt(10)]

\* The session of C16 has been evaluated.
C16_SessionOfFiveEvaluated ==
    \E ev \in AllEvaluations : ev.metrics = SessionOfFive

\* The evaluators a step has called.
CalledInStep ==
    {e \in Evaluators : last_evaluation'.calls[e] # last_evaluation.calls[e]}

\* C17: each evaluate_conversation call appends exactly one record to the
\* evaluator's evaluations list and returns that record; the records already in
\* the list stay as they are and where they are; no other step and no call on
\* another evaluator changes the list.
C17_AppendsOne ==
    [][/\ CalledInStep = {} => evaluations' = evaluations
       /\ \A e \in CalledInStep :
             /\ last_evaluation'.calls[e] = last_evaluation.calls[e] + 1
             /\ last_evaluation'.evaluator = e
             /\ Len(last_evaluation'.returned) = 1
             /\ Len(evaluations'[e]) = Len(evaluations[e]) + 1
             /\ \A i \in 1..Len(evaluations[e]) : evaluations'[e][i] = evaluations[e][i]
             /\ evaluations'[e][Len(evaluations'[e])] = last_evaluation'.returned[1]
             /\ \A o \in Evaluators \ {e} : evaluations'[o] = evaluations[o]]_vars

\* After n calls on an evaluator its list holds n records.
C17_OneRecordPerCall ==
    \A e \in Evaluators : Len(evaluations[e]) = last_evaluation.calls[e]

\* C17's case: an evaluator's second call, on another session than its first, its
\* list holding the two records in call order.
C17_Witness ==
    \E e \in Evaluators :
        /\ last_evaluation.evaluator = e
        /\ last_evaluation.calls[e] = 2
        /\ Len(evaluations[e]) = 2
        /\ evaluations[e][1].metrics = SessionOfFive
        /\ evaluations[e][2].metrics = SessionOfSix
        /\ evaluations[e][2] = last_evaluation.returned[1]

\* C17's other case: a call on each evaluator.
C17_WitnessTwoEvaluators ==
    /\ Called
    /\ \A e \in Evaluators : Len(evaluations[e]) = 1

\* --------------------------------------------------------- the conversation

\* A step in which chat has taken a user message into the history.
ChatStep == Len(conversation_history') > Len(conversation_history)

\* A step of reset.
ResetStep == conversation_history' = <<>> /\ last_call'.op = "reset"

\* C18: across chat calls without reset commitments_made only grows: each chat
\* call appends the commitments extracted from its utterance at the end, in
\* extraction order, and leaves the earlier entries as they are and where they
\* are, a text that is already there included; no other step but reset changes
\* the list.
C18_CommitmentsOnlyGrow ==
    [][/\ ChatStep =>
             /\ last_chat'.op = "chat"
             /\ conversation_history'[Len(conversation_history) + 1] =
                    [role |-> "user", content |-> last_chat'.message]
             /\ last_chat'.extracted = CommitmentsOf[last_chat'.message]
             /\ Len(commitments_made') =
                    Len(commitments_made) + Len(last_chat'.extracted)
             /\ \A i \in 1..Len(commitments_made) :
                    commitments_made'[i] = commitments_made[i]
             /\ \A i \in 1..Len(last_chat'.extracted) :
                    commitments_made'[Len(commitments_made) + i] = last_chat'.extracted[i]
       /\ (~ChatStep /\ ~ResetStep) => commitments_made' = commitments_made]_vars

\* C18's case: a second chat call that appended, in extraction order, two
\* commitments that were in the list already.
C18_Witness ==
    /\ last_chat.op = "chat"
    /\ Len(last_chat.extracted) = 2
    /\ Len(commitments_made) = 4
    /\ commitments_made[1] = commitments_made[3]
    /\ commitments_made[2] = commitments_made[4]
    /\ commitments_made[1] # commitments_made[2]
    /\ SubSeq(commitments_made, 3, 4) = last_chat.extracted

\* C18's other case: a chat call with nothing to extract after one with three
\* commitments.
C18_WitnessNothingNew ==
    /\ last_chat.op = "chat"
    /\ last_chat.extracted = <<>>
    /\ Len(commitments_made) = 3

\* The markers of a commitment, in the order of the list.
Markers ==
    <<"i will", "i'll", "i commit to", "i promise", "i guarantee", "we will",
      "we'll", "by">>

\* The marker is written at position p of the text, in whatever case: the
\* characters of the text from p on, lowercased one by one, spell the marker.
RECURSIVE WrittenAt(_, _, _)
WrittenAt(text, marker, p) ==
    IF marker = "" THEN TRUE
    ELSE IF p > Len(text) THEN FALSE
    ELSE LET c == LowerChar(SubSeq(text, p, p))
         IN  /\ Len(c) <= Len(marker)
             /\ SubSeq(marker, 1, Len(c)) = c
             /\ WrittenAt(text, SubSeq(marker, Len(c) + 1, Len(marker)), p + 1)

\* The first position from p on where the marker is written, 0 if nowhere.
RECURSIVE FirstWrittenFrom(_, _, _)
FirstWrittenFrom(text, marker, p) ==
    IF p > Len(text) THEN 0
    ELSE IF WrittenAt(text, marker, p) THEN p
         ELSE FirstWrittenFrom(text, marker, p + 1)

\* The first position of the text where the marker is written, 0 if nowhere.
FirstWritten(text, marker) == FirstWrittenFrom(text, marker, 1)

\* The text from position p up to the next period or the end of the text, trimmed.
SpanFrom(text, p) ==
    LET stops == {q \in p..Len(text) : SubSeq(text, q, q) = "."}
        last  == IF stops = {} THEN Len(text)
                 ELSE (CHOOSE q \in stops : \A o \in stops : q <= o) - 1
    IN  Strip(SubSeq(text, p, last))

\* The span of each marker written in the text, in marker-list order, the empty
\* spans dropped.
RECURSIVE SpansFrom(_, _)
SpansFrom(text, i) ==
    IF i > Len(Markers) THEN <<>>
    ELSE LET p == FirstWritten(text, Markers[i])
         IN  (IF p # 0 /\ SpanFrom(text, p) # "" THEN <<SpanFrom(text, p)>> ELSE <<>>)
               \o SpansFrom(text, i + 1)

SpansOf == [text \in Texts |-> SpansFrom(text, 1)]

\* A call of _extract_commitments has returned, alone or within chat.
Extracted == last_chat.op \in {"chat", "extract"}

\* C19: _extract_commitments returns at most one commitment per marker, in
\* marker-list order; each is the text as written from the marker's first
\* occurrence up to the next period or the end of the text, trimmed, and dropped
\* if empty; for "I will deliver 10 units by Monday at 9am" the result is not
\* empty and has a span that starts at "I will".
C19_SpansInMarkerOrder ==
    Extracted =>
        /\ Len(last_chat.extracted) <= Len(Markers)
        /\ last_chat.extracted = SpansOf[last_chat.message]
        /\ last_chat.message = "I will deliver 10 units by Monday at 9am"
              => /\ last_chat.extracted # <<>>
                 /\ \E i \in DOMAIN last_chat.extracted :
                       SubSeq(last_chat.extracted[i], 1, 6) = "I will"

\* The text has no character whose lowercase is longer than itself.
PlainText(text) ==
    \A i \in 1..Len(text) : Len(LowerChar(SubSeq(text, i, i))) = 1

\* What of C19 the code keeps: the same on the texts whose lowercase has their
\* length.
C19_SpansOfPlainText ==
    (Extracted /\ PlainText(last_chat.message))
        => last_chat.extracted = SpansOf[last_chat.message]

\* The cases of C19 that are reached: marker-list order against text order, and
\* the text of the claim.
C19_ReachedMarkerOrder ==
    /\ Extracted
    /\ last_chat.message = "We'll ship it. I'll sign by Friday ."
    /\ last_chat.extracted = <<"I'll sign by Friday", "We'll ship it", "by Friday">>

C19_ReachedClaimedText ==
    /\ Extracted
    /\ last_chat.extracted = <<"I will deliver 10 units by Monday at 9am", "by Monday at 9am">>

\* The weekday and month names and the verbs that make a text concrete.
ConcreteWords ==
    <<"monday", "tuesday", "wednesday", "thursday", "friday", "saturday", "sunday",
      "january", "february", "march", "april", "may", "june", "july", "august",
      "september", "october", "november", "december",
      "will", "commit to", "promise", "guarantee", "deliver">>

\* The text has a digit, or one of the words written in whatever case.
ConcreteText(text) ==
    \/ \E i \in 1..Len(text) : SubSeq(text, i, i) \in
            {"0", "1", "2", "3", "4", "5", "6", "7", "8", "9"}
    \/ \E i \in DOMAIN ConcreteWords : FirstWritten(text, ConcreteWords[i]) # 0

ConcreteTextOf == [text \in Texts |-> ConcreteText(text)]

\* C20: a call of _analyze_response_quality, alone or within chat, gives
\* is_concrete true exactly when the text has a digit, a weekday or month name or
\* one of "will", "commit to", "promise", "guarantee", "deliver" in whatever case,
\* whatever is_vague and is_deflecting are; the empty text gives all three false;
\* the call alone raises nothing and changes no state of the agent.
C20_AnalysisIsPure ==
    [][/\ last_chat'.op \in {"chat", "analyze"}
             => /\ last_chat'.analysis.is_concrete = ConcreteTextOf[last_chat'.message]
                /\ last_chat'.message = ""
                      => /\ ~last_chat'.analysis.is_vague
                         /\ ~last_chat'.analysis.is_deflecting
                         /\ ~last_chat'.analysis.is_concrete
       /\ (last_chat'.op = "analyze" /\ last_chat' # last_chat)
             => UNCHANGED <<difficulty_level, vague_response_count, deflection_count,
                            commitments_made, system_prompt, conversation_history,
                            interrupted>>]_vars

\* C20's case: a direct call on a vague text that is concrete by its month name,
\* on an agent that two chats have raised to level 2.
C20_Witness ==
    /\ last_chat.op = "analyze"
    /\ last_chat.message = "maybe"
    /\ last_chat.analysis.is_vague
    /\ last_chat.analysis.is_concrete
    /\ difficulty_level = 2
    /\ vague_response_count = 2

\* C20's other cases: the empty text; a text concrete by a digit alone; a vague
\* and deflecting text that is not concrete; a verb in capitals.
C20_WitnessEmptyText ==
    /\ last_chat.op = "analyze"
    /\ last_chat.message = ""
    /\ last_chat.analysis = [is_vague |-> FALSE, is_deflecting |-> FALSE,
                              is_concrete |-> FALSE, length |-> 0]

C20_WitnessDigit ==
    /\ last_chat.op = "analyze"
    /\ last_chat.message = "Call me at 9"
    /\ last_chat.analysis.is_concrete

C20_WitnessNotConcrete ==
    /\ last_chat.op = "analyze"
    /\ last_chat.analysis.is_vague
    /\ last_chat.analysis.is_deflecting
    /\ ~last_chat.analysis.is_concrete

C20_WitnessCapitals ==
    /\ last_chat.op = "analyze"
    /\ last_chat.message = "I COMMIT TO IT. "
    /\ last_chat.analysis.is_concrete

\* The deflection markers as stated: "before we" alone is one of them.
StatedDeflectionMarkers ==
    <<"let's talk about", "what about", "but first", "before we",
      "can we discuss", "moving on">>

\* The deflection markers with the fourth in full.
FullDeflectionMarkers ==
    <<"let's talk about", "what about", "but first", "before we get to that",
      "can we discuss", "moving on">>

\* One of the markers is written in the text, in whatever case.
HasMarker(text, markers) ==
    \E i \in DOMAIN markers : FirstWritten(text, markers[i]) # 0

StatedDeflectingOf == [text \in Texts |-> HasMarker(text, StatedDeflectionMarkers)]
FullDeflectingOf == [text \in Texts |-> HasMarker(text, FullDeflectionMarkers)]

\* A call of _analyze_response_quality has returned, alone or within chat.
Analyzed == last_chat.op \in {"chat", "analyze"}

\* C21 as stated: is_deflecting is true exactly when the text has, in whatever
\* case, one of "let's talk about", "what about", "but first", "before we",
\* "can we discuss", "moving on"; so a text with "before we" is deflecting
\* whatever follows those words.
C21_BeforeWeAlone ==
    Analyzed => last_chat.analysis.is_deflecting = StatedDeflectingOf[last_chat.message]

\* C21: is_deflecting is true exactly when the text has, in whatever case, one
\* of "let's talk about", "what about", "but first", "before we get to that",
\* "can we discuss", "moving on"; a text with "before we" followed by other words
\* than "get to that", and with no other marker, is not deflecting.
C21_DeflectionMarkers ==
    Analyzed =>
        /\ last_chat.analysis.is_deflecting = FullDeflectingOf[last_chat.message]
        /\ last_chat.message = "Before we start, a question"
              => ~last_chat.analysis.is_deflecting

\* C21's case: "before we" followed by other words, analysed as not deflecting.
C21_Witness ==
    /\ Analyzed
    /\ last_chat.message = "Before we start, a question"
    /\ StatedDeflectingOf[last_chat.message]
    /\ ~last_chat.analysis.is_deflecting

\* C21's other cases: the fourth marker in full and in capitals; two markers in
\* one chat message.
C21_WitnessInFull ==
    /\ Analyzed
    /\ last_chat.message = "BEFORE WE GET TO THAT, a question"
    /\ last_chat.analysis.is_deflecting

C21_WitnessInChat ==
    /\ last_chat.op = "chat"
    /\ last_chat.message = "But first, what about cost?"
    /\ last_chat.analysis.is_deflecting
    /\ deflection_count = 1

\* The agent as its constructor leaves it.
NewAgent == [level |-> 1, vague |-> 0, deflection |-> 0, commitments |-> <<>>]

\* An agent after one more utterance.
AfterUtterance(a, text) ==
    LET commitments == a.commitments \o CommitmentsOf[text]
        vague       == IF AnalysisOf[text].is_vague THEN a.vague + 1 ELSE a.vague
        deflection  == IF AnalysisOf[text].is_deflecting
                       THEN a.deflection + 1 ELSE a.deflection
        raised1     == IF AnalysisOf[text].is_vague /\ vague >= 2 /\ a.level < 5
                       THEN a.level + 1 ELSE a.level
        raised2     == IF AnalysisOf[text].is_deflecting /\ deflection >= 2 /\ raised1 < 5
                       THEN raised1 + 1 ELSE raised1
        lowered     == IF /\ AnalysisOf[text].is_concrete
                          /\ ~AnalysisOf[text].is_vague
                          /\ raised2 > 1
                          /\ Len(commitments) >= 2
                       THEN raised2 - 1 ELSE raised2
    IN  [level |-> lowered, vague |-> vague, deflection |-> deflection,
         commitments |-> commitments]

\* A newly constructed agent after the first n of the utterances.
RECURSIVE AfterUtterances(_, _)
AfterUtterances(utterances, n) ==
    IF n = 0 THEN NewAgent
    ELSE AfterUtterance(AfterUtterances(utterances, n - 1), utterances[n].content)

\* The user entries of the history: the utterances processed since the agent
\* was constructed or last reset.
UtterancesSinceReset ==
    SelectSeq(conversation_history, LAMBDA entry : entry.role = "user")

\* The counters, level and commitments of the agent, and the system prompt
\* built for them.
AgentIs(a) ==
    /\ difficulty_level = a.level
    /\ vague_response_count = a.vague
    /\ deflection_count = a.deflection
    /\ commitments_made = a.commitments
    /\ system_prompt = [difficulty_level |-> a.level, vague_responses |-> a.vague,
                        deflections |-> a.deflection,
                        commitments |-> Len(a.commitments)]

\* C22: reset leaves difficulty_level 1, both counters 0, commitments_made and
\* conversation_history empty, interrupted false and the system prompt built for
\* that state, whatever the state before; and the utterances processed since
\* the last reset leave the counters, level and commitments that the same
\* utterances leave on a newly constructed agent.
C22_ResetIsFresh ==
    /\ last_call.op = "reset"
          => /\ AgentIs(NewAgent)
             /\ conversation_history = <<>>
             /\ interrupted = FALSE
    /\ AgentIs(AfterUtterances(UtterancesSinceReset, Len(UtterancesSinceReset)))

\* C22's case: a reset of an agent that its last chat, a vague utterance, had
\* left at level 2 or above with commitments recorded.
C22_Witness ==
    /\ last_call.op = "reset"
    /\ last_chat.op = "chat"
    /\ last_chat.analysis.is_vague
    /\ last_call.after_vague.level >= 2
    /\ last_call.commitments >= 2
    /\ AgentIs(NewAgent)
    /\ conversation_history = <<>>

\* C22's other cases: a reset after a chat whose model request failed; three
\* utterances processed on a raised level.
C22_WitnessAfterFailure ==
    /\ last_call.op = "reset"
    /\ last_chat.op = "chat"
    /\ last_chat.outcome = RequestError
    /\ last_call.after_vague.vague >= 1

C22_WitnessUtterances ==
    /\ Len(UtterancesSinceReset) = 3
    /\ difficulty_level = 2
    /\ Len(commitments_made) >= 2

\* ------------------------------------------------------ the scenario validator

\* The field is in the scenario with a value that is neither None nor empty.
Filled(s, field) == field \in DOMAIN s /\ s[field] \notin {None, Str("")}

\* The persona of the scenario: persona_type, or else persona.
PersonaOf(s) ==
    IF Filled(s, "persona_type") THEN s["persona_type"]
    ELSE IF Filled(s, "persona") THEN s["persona"]
    ELSE None

\* The five PersonaType values.
PersonaTypes ==
    {Str("ANGRY_CUSTOMER"), Str("ELITE_INTERVIEWER"), Str("TOUGH_NEGOTIATOR"),
     Str("SKEPTICAL_INVESTOR"), Str("DEMANDING_CLIENT")}

\* The value converts to a number, and the number is in [0, 1].
InUnitInterval(v) ==
    /\ ToFloat(v).ok
    /\ ToFloat(v).value # NaN
    /\ RLe(RInt(0), ToFloat(v).value)
    /\ RLe(ToFloat(v).value, RInt(1))

\* The scenario as the contract wants it.
ValidScenario(s) ==
    /\ PersonaOf(s) \in PersonaTypes
    /\ Filled(s, "user_goal") \/ Filled(s, "goals")
    /\ Filled(s, "company")
    /\ Filled(s, "role")
    /\ Filled(s, "stakes")
    /\ "difficulty" \in DOMAIN s
    /\ InUnitInterval(s["difficulty"])

\* The difficulty converts to NaN.
DifficultyIsNaN(s) ==
    /\ "difficulty" \in DOMAIN s
    /\ ToFloat(s["difficulty"]).ok
    /\ ToFloat(s["difficulty"]).value = NaN

Validated == "validate_scenario" \in last_validation.called

\* C23: validate_scenario returns an empty error list exactly when the scenario
\* has a non-empty persona (persona_type, or else persona) that is one of the
\* five PersonaType values, a non-empty goal, non-empty company, role and stakes,
\* and a difficulty that converts to a number in [0, 1]; is_scenario_complete is
\* true exactly when validate_scenario is empty.
C23_ValidExactly ==
    /\ Validated => (last_validation.errors = <<>>) = ValidScenario(session.scenario)
    /\ (Validated /\ "is_scenario_complete" \in last_validation.called)
          => last_validation.complete = (last_validation.errors = <<>>)

\* What of C23 the code keeps: the same on the scenarios whose difficulty does
\* not convert to NaN.
C23_ValidUnlessNaN ==
    /\ (Validated /\ ~DifficultyIsNaN(session.scenario))
          => (last_validation.errors = <<>>) = ValidScenario(session.scenario)
    /\ (Validated /\ "is_scenario_complete" \in last_validation.called)
          => last_validation.complete = (last_validation.errors = <<>>)

\* The cases of C23 that are reached: a scenario of the contract found complete,
\* with the aliases and a difficulty given as a str; a difficulty above 1
\* refused; a NaN difficulty found complete.
C23_ReachedValid ==
    /\ last_validation.called = {"validate_scenario", "is_scenario_complete",
                                 "get_missing_fields"}
    /\ ValidScenario(session.scenario)
    /\ "persona_type" \notin DOMAIN session.scenario
    /\ "user_goal" \notin DOMAIN session.scenario
    /\ session.scenario["difficulty"] = Str("0.5")
    /\ last_validation.errors = <<>>
    /\ last_validation.complete

C23_ReachedRefused ==
    /\ Validated
    /\ "difficulty" \in DOMAIN session.scenario
    /\ session.scenario["difficulty"] = Number(RInt(2))
    /\ last_validation.errors =
          <<"difficulty must be between 0 and 1 (0 = easy, 1 = maximum pressure)">>

C23_ReachedNaN ==
    /\ Validated
    /\ "is_scenario_complete" \in last_validation.called
    /\ DifficultyIsNaN(session.scenario)
    /\ last_validation.errors = <<>>
    /\ last_validation.complete

\* ------------------------------------------------------------ interruptions

\* The words that mark an interruption.
InterruptionMarkers == <<"wait", "stop", "hold on", "let me", "actually">>

InterruptingTextOf == [text \in Texts |-> HasMarker(text, InterruptionMarkers)]

\* C24: chat detects a user interruption such as "Wait, let me explain": for a
\* user message that has one of "wait", "stop", "hold on", "let me", "actually",
\* the request sent to the model in that call includes the "USER IS
\* INTERRUPTING" system message.
C24_InterruptionDetected ==
    (last_chat.op = "chat" /\ InterruptingTextOf[last_chat.message])
        => last_chat.interrupting

\* What of C24 the code keeps: the request includes the message exactly when
\* the user message has one of the words and is of three words at most.
C24_ShortInterruptions ==
    last_chat.op = "chat"
        => last_chat.interrupting =
              (InterruptingTextOf[last_chat.message] /\ last_chat.analysis.length <= 3)

\* The cases of C24 that are reached: "Hold on" sent with the message, "Wait,
\* let me explain" sent without it.
C24_ReachedDetected ==
    /\ last_chat.op = "chat"
    /\ last_chat.message = "Hold on"
    /\ last_chat.interrupting
    /\ ~interrupted

C24_ReachedMissed ==
    /\ last_chat.op = "chat"
    /\ last_chat.message = "Wait, let me explain"
    /\ last_chat.outcome \in Replies
    /\ ~last_chat.interrupting

\* ------------------------------------------- commitments and the reward step

\* The state is the one a chat call has just left.
AfterChat == last_chat.op = "chat" /\ last_call.op = "chat"

\* C25: in chat the commitments extracted from the utterance are appended to
\* commitments_made before the difficulty update runs: the level is lowered by
\* one exactly when the utterance is concrete and not vague, the level after
\* the two raising steps is above 1, and commitments_made with the utterance's
\* own commitments has two entries or more; so a concrete, non-vague utterance
\* with two commitments lowers a level above 1 in that same call, whatever was
\* committed before.
C25_OwnCommitmentsCount ==
    AfterChat =>
        /\ difficulty_level =
              IF /\ last_chat.analysis.is_concrete
                 /\ ~last_chat.analysis.is_vague
                 /\ last_call.after_deflect.level > 1
                 /\ Len(commitments_made) >= 2
              THEN last_call.after_deflect.level - 1
              ELSE last_call.after_deflect.level
        /\ (/\ last_chat.analysis.is_concrete
            /\ ~last_chat.analysis.is_vague
            /\ ~last_chat.analysis.is_deflecting
            /\ Len(last_chat.extracted) >= 2
            /\ last_call.before.level > 1)
              => difficulty_level = last_call.before.level - 1

\* C25's case: at level 2 and with no commitment made, one utterance with two
\* commitments, lowered to level 1 in that call.
C25_Witness ==
    /\ AfterChat
    /\ last_call.before.level = 2
    /\ Len(last_chat.extracted) = 2
    /\ commitments_made = last_chat.extracted
    /\ last_chat.analysis.is_concrete
    /\ ~last_chat.analysis.is_vague
    /\ difficulty_level = 1

\* C25's other case: a concrete utterance with one commitment, the first of the
\* conversation, leaves level 2.
C25_WitnessOneCommitment ==
    /\ AfterChat
    /\ last_call.before.level = 2
    /\ Len(commitments_made) = 1
    /\ last_chat.analysis.is_concrete
    /\ ~last_chat.analysis.is_vague
    /\ difficulty_level = 2

\* ------------------------------------------------------- failed model requests

\* The history is user, assistant, user, assistant, and so on.
Alternates ==
    \A i \in DOMAIN conversation_history :
        conversation_history[i].role = IF i % 2 = 1 THEN "user" ELSE "assistant"

\* A step of a chat call whose model request raised.
FailedChatStep ==
    /\ last_call'.op = "chat"
    /\ last_chat'.op = "chat"
    /\ last_chat'.outcome = RequestError

\* C26: after any sequence of chat calls conversation_history alternates user
\* and assistant entries and get_stats().total_exchanges equals the number of
\* utterances that the counters, difficulty and commitments have taken in, also
\* when a model request raises: a failed chat call leaves counters, difficulty,
\* commitments and history as they were before the call.
C26_FailedChatLeavesNoTrace ==
    /\ [](Alternates /\ GetStats.total_exchanges = Len(UtterancesSinceReset))
    /\ [][FailedChatStep
              => UNCHANGED <<difficulty_level, vague_response_count, deflection_count,
                             commitments_made, conversation_history>>]_vars

\* What of C26 the code keeps: a chat call whose request is answered adds the
\* user entry and the assistant entry; one whose request raises has added the
\* user entry and updated counters, level and commitments like the other.
C26_FailedChatKeepsItsUpdate ==
    [][ChatStep =>
          /\ vague_response_count' =
                vague_response_count + (IF last_chat'.analysis.is_vague THEN 1 ELSE 0)
          /\ deflection_count' =
                deflection_count + (IF last_chat'.analysis.is_deflecting THEN 1 ELSE 0)
          /\ commitments_made' = commitments_made \o last_chat'.extracted
          /\ conversation_history'[Len(conversation_history) + 1] =
                [role |-> "user", content |-> last_chat'.message]
          /\ Len(conversation_history') =
                Len(conversation_history)
                  + (IF last_chat'.outcome = RequestError THEN 1 ELSE 2)]_vars

\* The cases of C26 that are reached: three answered chats; two failed chats
\* in a row, both counted, with one exchange in the stats.
C26_ReachedAnswered ==
    /\ Len(conversation_history) = 6
    /\ Alternates
    /\ GetStats.total_exchanges = 3

C26_ReachedFailedTwice ==
    /\ Len(conversation_history) = 2
    /\ conversation_history[1] = [role |-> "user", content |-> "maybe"]
    /\ conversation_history[2] = [role |-> "user", content |-> "maybe"]
    /\ vague_response_count = 2
    /\ difficulty_level = 2
    /\ GetStats.total_exchanges = 1

\* ------------------------------------------------- metadata collection (C27)

\* The fields get_missing_fields reports for the session's scenario.
MissingFields == GetMissingFields(session.scenario)

MissingSet == {MissingFields[i] : i \in DOMAIN MissingFields}

\* A step in which _on_user_speech calls _process_metadata_response.
ProcessMetadataStep ==
    /\ session.collecting_metadata
    /\ Len(session'.transcript) = Len(session.transcript) + 1
    /\ session'.transcript[Len(session'.transcript)].role = "user"

\* While metadata is collected, the question is on the first missing field.
AsksFirstMissing ==
    session.collecting_metadata =>
        /\ MissingFields # <<>>
        /\ session.current_question_field = Str(MissingFields[1])

\* C27: whenever collecting_metadata is true, current_question_field is the
\* first entry of get_missing_fields(scenario); a _process_metadata_response
\* call removes at most the current field from the missing set and adds none;
\* collecting_metadata turns false only in the call after which no field is
\* missing, which also sets current_question_field to None and session_started
\* to true; and once the scenario is loaded, a false collecting_metadata never
\* turns true.
C27_MetadataCollection ==
    /\ []AsksFirstMissing
    /\ [][ProcessMetadataStep =>
            /\ MissingSet' \subseteq MissingSet
            /\ MissingSet \ MissingSet' \subseteq {session.current_question_field.text}
            /\ (MissingSet' = {}) = ~session'.collecting_metadata]_vars
    /\ [][session.collecting_metadata /\ ~session'.collecting_metadata =>
            /\ ProcessMetadataStep
            /\ MissingSet' = {}
            /\ session'.current_question_field = None
            /\ session'.session_started]_vars
    /\ [][entrypoint.pc # "entered" /\ ~session.collecting_metadata =>
            ~session'.collecting_metadata]_vars

\* The collection has ended with the answer to the last question.
C27_Witness ==
    /\ ~session.collecting_metadata
    /\ session.session_started
    /\ session.current_question_field = None
    /\ MissingFields = <<>>
    /\ Len(session.transcript) >= 3

\* An answer was heard that filled nothing: the same question is still open.
C27_WitnessUnanswered ==
    /\ session.collecting_metadata
    /\ session.current_question_field = Str("difficulty")
    /\ Len(session.transcript) >= 2
    /\ session.transcript[Len(session.transcript)] = [role |-> "user", content |-> "Job interview"]

\* The scenario came complete: nothing is collected and session_started stays false.
C27_WitnessComplete ==
    /\ entrypoint.pc = "conversation"
    /\ ~session.collecting_metadata
    /\ ~session.session_started
    /\ MissingFields = <<>>

\* ---------------------------------------------------- the session trace (C28)

\* The entrypoint has started a session trace (tracing enabled, the client made
\* the trace).
SessionTraced == tracer.enabled /\ entrypoint.session_trace # 0

\* The trace the entrypoint started.
SessionTrace == tracer.traces[entrypoint.session_trace]

\* The entrypoint is over: it returned or an exception left it.
Over == entrypoint.pc = "done"

\* The session trace is open and current until the entrypoint is over, and
\* then it has been ended once and no trace is active.
EndedOnceWhenOver ==
    SessionTraced =>
        IF Over
        THEN SessionTrace.ended = 1 /\ ~HasActiveTrace(tracer)
        ELSE SessionTrace.ended = 0 /\ tracer.current = entrypoint.session_trace

\* What failed in the try block leaves the entrypoint as the exception it was;
\* if it is an Exception, the trace has its error span and the error output.
FailureLoggedAndRaised ==
    Over /\ entrypoint.failed_at \notin {"none", "connect"} =>
        /\ entrypoint.result = entrypoint.pending
        /\ entrypoint.result \in Failures
        /\ SessionTraced /\ IsException(entrypoint.result) =>
              SessionTrace.errors = 1 /\ SessionTrace.output = "error"

\* With no failure but that of the Realtime assistant, the fallback pipeline
\* runs, the entrypoint returns, and the trace has no error span.
RealtimeFailureFallsBack ==
    /\ entrypoint.assistant = "fallback" => entrypoint.failed_at # "realtime"
    /\ Over /\ entrypoint.failed_at = "none" =>
          /\ entrypoint.result = "returned"
          /\ entrypoint.assistant \in {"realtime", "fallback"}
          /\ SessionTraced => SessionTrace.errors = 0 /\ SessionTrace.output = "ok"

C28_Witness ==
    /\ SessionTraced /\ Over
    /\ entrypoint.result = "returned"
    /\ SessionTrace.ended = 1 /\ SessionTrace.output = "ok"

C28_WitnessCancelled ==
    /\ SessionTraced /\ Over
    /\ entrypoint.failed_at = "conversation"
    /\ entrypoint.result = "CancelledError"
    /\ SessionTrace.ended = 1 /\ SessionTrace.errors = 0 /\ SessionTrace.output = "None"

\* A trace left in the context by an earlier job was ended by the start of
\* this job's session trace.
C28_WitnessStale ==
    /\ SessionTraced /\ Over
    /\ entrypoint.session_trace = 2
    /\ tracer.traces[1].ended = 1

\* ------------------------------------------------------ tracing spans (C29)

\* The block was left by an exception of the caller's code, under an active
\* trace.
RaisedUnderTrace ==
    /\ span.state = "exited"
    /\ HasActiveTrace(tracer)
    /\ span.raised # "none"

\* The span of the block just left.
BlockSpan == span.spans[Len(span.spans)]

\* C29: with an active trace, an exception raised by the caller's code inside
\* a `with tracer.trace_llm_span(...)` block (likewise trace_stt_span and
\* trace_tts_span) reaches the caller as that same exception, after the span
\* has been updated with its duration and ended exactly once; the tracing
\* wrapper never replaces the caller's exception with another one.
C29_CallerExceptionReaches ==
    RaisedUnderTrace =>
        /\ span.reached = span.raised
        /\ span.at = "span" => BlockSpan.updated = 1 /\ BlockSpan.ended = 1

\* C29, as the code has it: the span is updated and ended once, but of the
\* caller's exceptions only a BaseException, or one raised when no span could
\* be made, comes through; an Exception raised under a span is replaced by
\* contextlib's RuntimeError.
C29_ExceptionReplaced ==
    RaisedUnderTrace =>
        /\ span.at = "span" => BlockSpan.updated = 1 /\ BlockSpan.ended = 1
        /\ span.reached = IF span.at = "span" /\ IsException(span.raised)
                          THEN GeneratorDidNotStop ELSE span.raised

\* A ValueError of the caller's code under an llm span came out as RuntimeError.
C29_ReachedReplaced ==
    /\ RaisedUnderTrace
    /\ span.kind = "llm_call" /\ span.at = "span"
    /\ span.raised = "ValueError"
    /\ span.reached = GeneratorDidNotStop
    /\ BlockSpan.ended = 1

\* A cancellation under a tts span came through.
C29_ReachedCancelled ==
    /\ RaisedUnderTrace
    /\ span.kind = "tts" /\ span.at = "span"
    /\ span.reached = "CancelledError"

\* ------------------------------------------------ the adversary's level (C30)

\* The adversary's level was taken from its scenario: it has one.
LevelFromScenario == adversary.constructed /\ ~ScenarioUnset(adversary.scenario)

\* 1 <= difficulty_level <= 5.
LevelWithinBounds ==
    /\ ~RLt(adversary.difficulty_level, RInt(1))
    /\ ~RLt(RInt(5), adversary.difficulty_level)

\* The scenario's difficulty is an integer 1-5, or it has none (then 1).
LegacyScale ==
    Get(adversary.scenario, "difficulty", Number(RInt(1))).value \in {RInt(d) : d \in 1..5}

\* C30: for an AdversaryAgent whose starting difficulty_level is taken from its
\* scenario, difficulty_level stays within [1, 5] after any sequence of
\* difficulty updates, for every scenario difficulty the system accepts: an
\* integer 1-5 or a normalized value in [0, 1].
C30_LevelWithinBounds == LevelFromScenario => LevelWithinBounds

\* C30, as the code has it: the level stays within [1, 5] for the scenarios of
\* the 1-5 scale; a normalized difficulty is taken as the level itself, and
\* the level then lies anywhere from 0 up to, but not at, 6.
C30_LegacyScaleOnly ==
    LevelFromScenario =>
        /\ LegacyScale => LevelWithinBounds
        /\ ~RLt(adversary.difficulty_level, RInt(0))
        /\ RLt(adversary.difficulty_level, RInt(6))

\* The normalized difficulty 0.5 is the starting level.
C30_ReachedBelow ==
    /\ LevelFromScenario
    /\ adversary.difficulty_level = Rat(1, 2)
    /\ adversary.vague_response_count = 0 /\ adversary.deflection_count = 0

\* From 0.5 the updates have raised the level to 5.5.
C30_ReachedAbove ==
    /\ LevelFromScenario
    /\ adversary.difficulty_level = Rat(11, 2)

\* A scenario of difficulty 3 has gone up to 5 and come down again.
C30_ReachedLegacy ==
    /\ LevelFromScenario /\ LegacyScale
    /\ adversary.scenario # [persona_type |-> Str("ELITE_INTERVIEWER")]
    /\ adversary.difficulty_level = RInt(4)
    /\ adversary.vague_response_count >= 2
    /\ Len(adversary.commitments_made) >= 2

============================================================================
